---- MODULE Spec2Model ----
(***************************************************************************)
(* UltraSONIC: the operation verifier Codex::verify (src/src/codex.rs),    *)
(* the USONIC core extension and instructions (src/src/isa) and the state  *)
(* and operation data types (src/src/state.rs, src/src/operation.rs).      *)
(*                                                                         *)
(* Option<T> is a sequence of length 0 (None) or 1 (Some).  A 32-byte      *)
(* commitment id is the tuple of the values it commits to (a collision-    *)
(* free hash).  The base AluVM (zkaluvm crate) is an external collaborator:*)
(* its control-flow and field instructions are modelled as far as the      *)
(* scripts of the libraries below use them.                                *)
(***************************************************************************)
EXTENDS Integers, Sequences, FiniteSets, TLC

VARIABLES
    codex,                \* &self: the Codex
    contract_id,          \* argument contract_id
    operation,            \* argument operation
    memory,               \* argument memory: &impl Memory
    repo,                 \* argument repo: &impl LibRepo
    pc,                   \* position of Codex::verify
    idx,                  \* index of the input the current loop handles
    vm_inputs,            \* core of the input VM (phase 1)
    vm_main,              \* core of the main VM (phase 2)
    site,                 \* LibSite the running script is at
    destructible_inputs,  \* resolved destructible inputs
    immutable_inputs,     \* resolved immutable inputs
    context,              \* the VmContext of the main script
    result,               \* what verify returned
    log,                  \* calls made on Memory, LibRepo and the VMs, in order
    other,                \* a second call of verify, suspended between two steps
    visited,              \* per category, the registers each ld* filled since UI was 0
    subject               \* what a function of the library is called on

vars == <<codex, contract_id, operation, memory, repo, pc, idx, vm_inputs, vm_main,
          site, destructible_inputs, immutable_inputs, context, result, log, other,
          visited, subject>>

args == <<codex, contract_id, operation, memory, repo>>

\* what the steps of verify before and after the entry point leave alone
kept == <<args, other, context, visited, subject>>

----------------------------------------------------------------------------
(* Option<T> *)

None == <<>>

Some(v) == <<v>>

IsSome(o) == o # <<>>

Unwrap(o) == o[1]

----------------------------------------------------------------------------
(* StateValue, src/src/state.rs *)

SvNone == [tag |-> 0]

Single(a) == [tag |-> 1, first |-> a]

Double(a, b) == [tag |-> 2, first |-> a, second |-> b]

Triple(a, b, c) == [tag |-> 3, first |-> a, second |-> b, third |-> c]

Quadripple(a, b, c, d) == [tag |-> 4, first |-> a, second |-> b, third |-> c, fourth |-> d]

\* StateValue::get, a match on (variant, pos)
StateValueGet(sv, pos) ==
    CASE pos = 0 /\ sv.tag \in {1, 2, 3, 4} -> Some(sv.first)
      [] pos = 1 /\ sv.tag \in {2, 3, 4} -> Some(sv.second)
      [] pos = 2 /\ sv.tag \in {3, 4} -> Some(sv.third)
      [] pos = 3 /\ sv.tag = 4 -> Some(sv.fourth)
      [] OTHER -> None

\* impl IntoIterator for StateValue: the vector the iterator runs over
IntoIter(sv) ==
    CASE sv.tag = 0 -> <<>>
      [] sv.tag = 1 -> <<sv.first>>
      [] sv.tag = 2 -> <<sv.first, sv.second>>
      [] sv.tag = 3 -> <<sv.first, sv.second, sv.third>>
      [] sv.tag = 4 -> <<sv.first, sv.second, sv.third, sv.fourth>>

\* the assert of from_iter failed: the call panicked
FromIterPanic == [tag |-> 0 - 1]

\* Iterator::next called no times before on the items: the item, if any
IterNext(items, no) == IF no <= Len(items) THEN Some(items[no]) ELSE None

\* a from_iter that takes the length from the first three items
FromIterThree(items) ==
    LET first == IterNext(items, 1)
        second == IterNext(items, 2)
        third == IterNext(items, 3)
    IN  IF IsSome(IterNext(items, 5)) THEN FromIterPanic
        ELSE IF IsSome(third) THEN Triple(Unwrap(first), Unwrap(second), Unwrap(third))
        ELSE IF IsSome(second) THEN Double(Unwrap(first), Unwrap(second))
        ELSE IF IsSome(first) THEN Single(Unwrap(first))
        ELSE SvNone

\* impl FromIterator<fe256> for StateValue
FromIter(items) ==
    LET first == IterNext(items, 1)
        second == IterNext(items, 2)
        third == IterNext(items, 3)
        fourth == IterNext(items, 4)
    IN  IF IsSome(IterNext(items, 5)) THEN FromIterPanic
        ELSE IF IsSome(fourth)
             THEN Quadripple(Unwrap(first), Unwrap(second), Unwrap(third), Unwrap(fourth))
        ELSE IF IsSome(third) THEN Triple(Unwrap(first), Unwrap(second), Unwrap(third))
        ELSE IF IsSome(second) THEN Double(Unwrap(first), Unwrap(second))
        ELSE IF IsSome(first) THEN Single(Unwrap(first))
        ELSE SvNone

\* AuthToken::from(fe256), derived by #[from]: the field element as it is; a
\* field element is written as the 32 bytes of to_u256().to_le_bytes()
AuthTokenFrom(fe) == fe

\* AuthToken::from_byte_array: buf[..30] = bytes, buf[30..] = [0, 0]
FromByteArray(bytes) == bytes \o <<0, 0>>

\* debug_assert_eq!(&bytes[30..], &[0, 0]) failed
ToByteArrayPanic == <<"panic">>

\* AuthToken::to_byte_array: the assertion of a debug build, then bytes[..30]
ToByteArray(token, debug) ==
    IF debug /\ SubSeq(token, 31, 32) # <<0, 0>>
    THEN ToByteArrayPanic
    ELSE SubSeq(token, 1, 30)

\* AuthToken::to_fe256: the token is a newtype around its field element
ToFe256(auth) == auth

----------------------------------------------------------------------------
(* Base VM (zkaluvm): registers, instructions, libraries *)

RegE == {"E1", "E2", "E3", "E4", "E5", "E6", "E7", "E8", "EA", "EB", "EC", "ED"}

Ok == "Ok"

Fail == "Fail"

\* Core of Vm<aluvm::gfa::Instr<LibId>> after Vm::with: all registers empty
GfaCoreWith == [E |-> [r \in RegE |-> None], co |-> Ok, ck |-> Ok, cy |-> 0]

\* a core whose E1 starts as zero instead of empty
UsonicCoreWithZeroE1 ==
    [E |-> [r \in RegE |-> IF r = "E1" THEN Some(0) ELSE None], co |-> Ok, ck |-> Ok,
     cy |-> 0, ui |-> <<0, 0, 0, 0>>]

\* a core that starts with what the lock scripts were given in E1
UsonicCoreWithAuth ==
    [E |-> [r \in RegE |-> IF r = "E1" THEN <<48>> ELSE <<>>], co |-> Ok, ck |-> Ok,
     cy |-> 0, ui |-> <<0, 0, 0, 0>>]

\* UsonicCore::with: ui = [0; 4] beside the field registers
UsonicCoreWith == [E |-> [r \in RegE |-> None], co |-> Ok, ck |-> Ok, cy |-> 0,
                   ui |-> <<0, 0, 0, 0>>]

\* a reset of the core that leaves the iterators where they are
UsonicCoreResetGfa(core) == [core EXCEPT !.E = [r \in RegE |-> None]]

\* CoreExt::reset of UsonicCore: gfa.reset(), then ui = [0; 4]
UsonicCoreReset(core) ==
    [core EXCEPT !.E = [r \in RegE |-> None], !.ui = <<0, 0, 0, 0>>]

\* No VM instantiated yet
NoVm == [E |-> [r \in RegE |-> None], co |-> "-", ck |-> "-", cy |-> 0]

Stop == [isa |-> "Ctrl", op |-> "stop"]

ChkCO == [isa |-> "Ctrl", op |-> "chk"]

NotCO == [isa |-> "Ctrl", op |-> "not"]

Jmp(pos) == [isa |-> "Ctrl", op |-> "jmp", pos |-> pos]

Put(r, v) == [isa |-> "Gfa", op |-> "put", dst |-> r, val |-> v]

Clr(r) == [isa |-> "Gfa", op |-> "clr", dst |-> r]

Test(r) == [isa |-> "Gfa", op |-> "test", src |-> r]

Eq(a, b) == [isa |-> "Gfa", op |-> "eq", src1 |-> a, src2 |-> b]

Usonic(op) == [isa |-> "Usonic", op |-> op]

\* CtrlInstr::exec for stop, chk CO, not CO, jmp
ExecCtrl(core, instr) ==
    CASE instr.op = "stop" -> [core |-> core, step |-> "Stop"]
      [] instr.op = "jmp" -> [core |-> core, step |-> "Jump", pos |-> instr.pos]
      [] instr.op = "chk" ->
            [core |-> core, step |-> IF core.co = Fail THEN "Fail" ELSE "Next"]
      [] instr.op = "not" ->
            [core |-> [core EXCEPT !.co = IF core.co = Ok THEN Fail ELSE Ok],
             step |-> "Next"]

\* FieldInstr::exec for put, clr, test, eq
ExecGfa(core, instr) ==
    CASE instr.op = "put" ->
            [core |-> [core EXCEPT !.E[instr.dst] = Some(instr.val)], step |-> "Next"]
      [] instr.op = "clr" ->
            [core |-> [core EXCEPT !.E[instr.dst] = None], step |-> "Next"]
      [] instr.op = "test" ->
            [core |-> [core EXCEPT !.co = IF IsSome(core.E[instr.src]) THEN Ok ELSE Fail],
             step |-> "Next"]
      [] instr.op = "eq" ->
            [core |-> [core EXCEPT !.co = IF core.E[instr.src1] = core.E[instr.src2]
                                           THEN Ok ELSE Fail],
             step |-> "Next"]

----------------------------------------------------------------------------
(* USONIC core extension and instructions, src/src/isa *)

IN_RO == "IN_RO"

IN_AO == "IN_AO"

OUT_RO == "OUT_RO"

OUT_AO == "OUT_AO"

IoCats == {IN_RO, IN_AO, OUT_RO, OUT_AO}

\* an index that folds the two input categories into one position
IoCatIndexFolded(cat) ==
    CASE cat = IN_RO -> 1
      [] cat = IN_AO -> 1
      [] cat = OUT_RO -> 3
      [] cat = OUT_AO -> 4

\* IoCat::index, as a position of the 1-based ui sequence
IoCatIndex(cat) ==
    CASE cat = IN_RO -> 1
      [] cat = IN_AO -> 2
      [] cat = OUT_RO -> 3
      [] cat = OUT_AO -> 4

\* slice::get(index)
SliceGet(s, index) == IF index + 1 <= Len(s) THEN Some(s[index + 1]) ELSE None

\* VmContext::state_value
StateValueOf(ctx, cat, index) ==
    CASE cat = IN_RO ->
            IF IsSome(SliceGet(ctx.destructible_input, index))
            THEN Some(ctx.destructible_input[index + 1].cell.data) ELSE None
      [] cat = IN_AO -> SliceGet(ctx.immutable_input, index)
      [] cat = OUT_RO ->
            IF IsSome(SliceGet(ctx.destructible_output, index))
            THEN Some(ctx.destructible_output[index + 1].data) ELSE None
      [] cat = OUT_AO ->
            IF IsSome(SliceGet(ctx.immutable_output, index))
            THEN Some(ctx.immutable_output[index + 1].value) ELSE None

\* VmContext::input_lock_aux
InputLockAux(ctx, index) ==
    IF IsSome(SliceGet(ctx.destructible_input, index))
       /\ IsSome(ctx.destructible_input[index + 1].cell.lock)
    THEN Some(Unwrap(ctx.destructible_input[index + 1].cell.lock).aux) ELSE None

\* an input_witness that reads the input loaded last
InputWitnessLast(ctx, index) ==
    IF index >= 1 /\ IsSome(SliceGet(ctx.destructible_input, index - 1))
    THEN Some(ctx.destructible_input[index].input.witness) ELSE None

\* VmContext::input_witness
InputWitness(ctx, index) ==
    IF IsSome(SliceGet(ctx.destructible_input, index))
    THEN Some(ctx.destructible_input[index + 1].input.witness) ELSE None

\* VmContext::input_auth_token: the token, and whether the cell has a lock
InputAuthToken(ctx, index) ==
    IF IsSome(SliceGet(ctx.destructible_input, index))
    THEN Some(<<ctx.destructible_input[index + 1].cell.auth,
                IsSome(ctx.destructible_input[index + 1].cell.lock)>>)
    ELSE None

\* a set_ea_ed that writes the registers the value has elements for
SetEaEdKeep(core, data) ==
    [core EXCEPT !.E["EA"] = IF IsSome(StateValueGet(data, 0))
                             THEN StateValueGet(data, 0) ELSE @,
                 !.E["EB"] = IF IsSome(StateValueGet(data, 1))
                             THEN StateValueGet(data, 1) ELSE @,
                 !.E["EC"] = IF IsSome(StateValueGet(data, 2))
                             THEN StateValueGet(data, 2) ELSE @,
                 !.E["ED"] = IF IsSome(StateValueGet(data, 3))
                             THEN StateValueGet(data, 3) ELSE @]

\* UsonicCore::set_ea_ed
SetEaEd(core, data) ==
    [core EXCEPT !.E["EA"] = StateValueGet(data, 0),
                 !.E["EB"] = StateValueGet(data, 1),
                 !.E["EC"] = StateValueGet(data, 2),
                 !.E["ED"] = StateValueGet(data, 3)]

\* core.set_co(if res { Status::Ok } else { Status::Fail })
SetCo(core, res) == [core EXCEPT !.co = IF res THEN Ok ELSE Fail]

\* UsonicCore::set_ea_ed_opt, with the CO the instruction sets from it
SetEaEdOpt(core, data) ==
    SetCo(SetEaEd(core, IF IsSome(data) THEN Unwrap(data) ELSE SvNone), IsSome(data))

\* a set_ed_eb that empties EC and ED as well
SetEdEbWide(core, data) ==
    SetCo([core EXCEPT
              !.E["EA"] = IF IsSome(data) THEN Some(ToFe256(Unwrap(data)[1])) ELSE None,
              !.E["EB"] = IF IsSome(data)
                          THEN Some(IF Unwrap(data)[2] THEN 1 ELSE 0) ELSE None,
              !.E["EC"] = None,
              !.E["ED"] = None],
          IsSome(data))

\* UsonicCore::set_ed_eb, with the CO the instruction sets from it
SetEdEb(core, data) ==
    SetCo([core EXCEPT
              !.E["EA"] = IF IsSome(data) THEN Some(ToFe256(Unwrap(data)[1])) ELSE None,
              !.E["EB"] = IF IsSome(data)
                          THEN Some(IF Unwrap(data)[2] THEN 1 ELSE 0) ELSE None],
          IsSome(data))

\* a has_data that moves the iterator past the element it found
HasDataAdvance(core, cat, ctx) ==
    LET found == IsSome(StateValueOf(ctx, cat, core.ui[IoCatIndex(cat)]))
    IN  [core EXCEPT !.co = IF found THEN Ok ELSE Fail,
                     !.ui[IoCatIndex(cat)] = IF found THEN (@ + 1) % 65536 ELSE @]

\* UsonicCore::has_data, with the CO the instruction sets from it
HasData(core, cat, ctx) ==
    [core EXCEPT !.co = IF IsSome(StateValueOf(ctx, cat, core.ui[IoCatIndex(cat)]))
                        THEN Ok ELSE Fail]

\* a load_internal that leaves the registers alone when there was no data
LoadInternalKeep(core, cat, data) ==
    IF IsSome(data)
    THEN [SetEaEd(core, Unwrap(data)) EXCEPT !.ui[IoCatIndex(cat)] = (@ + 1) % 65536,
                                             !.co = Ok]
    ELSE [core EXCEPT !.co = Fail]

\* a load_internal that moves the iterator whether or not there was data
LoadInternalAlways(core, cat, data) ==
    LET co == IsSome(data)
        loaded == SetEaEd(core, IF co THEN Unwrap(data) ELSE SvNone)
    IN  [loaded EXCEPT !.ui[IoCatIndex(cat)] = (@ + 1) % 65536,
                       !.co = IF co THEN Ok ELSE Fail]

\* UsonicCore::load_internal: ui is a u16
LoadInternal(core, cat, data) ==
    LET co == IsSome(data)
        loaded == SetEaEd(core, IF co THEN Unwrap(data) ELSE SvNone)
    IN  [loaded EXCEPT !.ui[IoCatIndex(cat)] = IF co THEN (@ + 1) % 65536 ELSE @,
                       !.co = IF co THEN Ok ELSE Fail]

\* a load that reads the element before the iterator when there is one
LoadAgain(core, cat, ctx) ==
    LoadInternal(core, cat,
                 StateValueOf(ctx, cat, IF core.ui[IoCatIndex(cat)] = 0
                                        THEN 0 ELSE core.ui[IoCatIndex(cat)] - 1))

\* UsonicCore::load
Load(core, cat, ctx) ==
    LoadInternal(core, cat, StateValueOf(ctx, cat, core.ui[IoCatIndex(cat)]))

\* a reset that steps the iterator back by one, as a u16
ResetUiBack(core, cat) == [core EXCEPT !.ui[IoCatIndex(cat)] = (@ + 65535) % 65536]

\* a reset of every iterator, as UsonicCore::reset() of the whole core does
ResetUiAll(core, cat) == [core EXCEPT !.ui = <<0, 0, 0, 0>>]

\* UsonicCore::reset(cat)
ResetUi(core, cat) == [core EXCEPT !.ui[IoCatIndex(cat)] = 0]

\* a ldw that reports in CO as the other loads do
LoadWitnessSetCo(core, ctx) == SetCo(SetEaEd(core, ctx.witness), TRUE)

\* UsonicInstr::LdW: set_ea_ed(context.witness), and the early return
LoadWitness(core, ctx) == SetEaEd(core, ctx.witness)

\* UsonicInstr::exec
ExecUsonic(core, instr, ctx) ==
    CASE instr.op = "CkNxIRo" -> HasData(core, IN_RO, ctx)
      [] instr.op = "CkNxIAo" -> HasData(core, IN_AO, ctx)
      [] instr.op = "CkNxORo" -> HasData(core, OUT_RO, ctx)
      [] instr.op = "CkNxOAo" -> HasData(core, OUT_AO, ctx)
      [] instr.op = "LdW" -> LoadWitness(core, ctx)
      [] instr.op = "LdIW" -> SetEaEdOpt(core, InputWitness(ctx, core.ui[IoCatIndex(IN_RO)]))
      [] instr.op = "LdIL" -> SetEaEdOpt(core, InputLockAux(ctx, core.ui[IoCatIndex(IN_RO)]))
      [] instr.op = "LdIT" -> SetEdEb(core, InputAuthToken(ctx, core.ui[IoCatIndex(IN_RO)]))
      [] instr.op = "LdIRo" -> Load(core, IN_RO, ctx)
      [] instr.op = "LdIAo" -> Load(core, IN_AO, ctx)
      [] instr.op = "LdORo" -> Load(core, OUT_RO, ctx)
      [] instr.op = "LdOAo" -> Load(core, OUT_AO, ctx)
      [] instr.op = "RstIRo" -> ResetUi(core, IN_RO)
      [] instr.op = "RstIAo" -> ResetUi(core, IN_AO)
      [] instr.op = "RstORo" -> ResetUi(core, OUT_RO)
      [] instr.op = "RstOAo" -> ResetUi(core, OUT_AO)

\* Instr::exec: dispatch by instruction family
ExecInstr(core, instr, ctx) ==
    CASE instr.isa = "Ctrl" -> ExecCtrl(core, instr)
      [] instr.isa = "Gfa" -> ExecGfa(core, instr)
      [] instr.isa = "Usonic" ->
            [core |-> ExecUsonic(core, instr, ctx), step |-> "Next"]

\* aluvm::gfa::Instr::exec: the input VM knows no USONIC opcode (reserved there)
ExecGfaInstr(core, instr) ==
    CASE instr.isa = "Ctrl" -> ExecCtrl(core, instr)
      [] instr.isa = "Gfa" -> ExecGfa(core, instr)
      [] OTHER -> [core |-> core, step |-> "FailHalt"]

----------------------------------------------------------------------------
(* Libraries: the scripts of the tests of src/src/codex.rs *)

SECRET == 48

\* test::lib_success
lib_success == [code |-> <<Stop>>]

\* test::lib_failure_none
lib_failure_none == [code |-> <<Clr("E1"), Test("E2"), ChkCO>>]

\* test::lib_failure_one
lib_failure_one == [code |-> <<Put("E1", 1), Test("E2"), ChkCO>>]

\* as lib_failure_one, with the error code 0
lib_failure_zero == [code |-> <<Put("E1", 0), Test("E2"), ChkCO>>]

\* test::lib_lock
lib_lock ==
    [code |-> <<Stop,
                Put("EA", SECRET),
                Eq("EA", "E1"), Put("E8", 1), ChkCO,
                Eq("EA", "E2"), Put("E8", 2), ChkCO,
                Put("E8", 3),
                Test("E3"), NotCO, ChkCO,
                Test("E4"), NotCO, ChkCO,
                Test("E5"), NotCO, ChkCO>>]

\* a verifier that requires one destructible input and loads it
lib_iter == [code |-> <<Usonic("CkNxIRo"), ChkCO, Usonic("LdIRo"), Stop>>]

\* a script that loops forever
lib_loop == [code |-> <<Jmp(0)>>]

\* a script that sets E1 and then loops forever
lib_loop_one == [code |-> <<Put("E1", 1), Jmp(1)>>]

Libs == <<lib_success, lib_failure_none, lib_failure_one, lib_failure_zero, lib_lock,
          lib_iter, lib_loop, lib_loop_one>>

LibIds == DOMAIN Libs

\* Lib::lib_id: the hash of the library's content
LibIdOf(lib) == CHOOSE id \in LibIds : Libs[id] = lib

\* LibSite::new
LibSite(lib_id, offset) == [lib_id |-> lib_id, offset |-> offset]

----------------------------------------------------------------------------
(* Operation id, src/src/operation.rs *)

\* an opid that commits to the root of an empty list in place of immutable_out
OpidWithoutImmutableOut(op) ==
    <<op.version, op.contract_id, op.call_id, op.nonce, op.destructible_in,
      op.immutable_in, op.destructible_out, <<>>>>

\* Operation::opid: commit_encode's fields in order, lists by their Merkle root
Opid(op) ==
    <<op.version, op.contract_id, op.call_id, op.nonce, op.destructible_in,
      op.immutable_in, op.destructible_out, op.immutable_out>>

\* VerifiedOperation::new_unchecked
VerifiedOperation(opid, op) == [opid |-> opid, operation |-> op]

\* an equality decided by the contract the two operations belong to
VerifiedEqContract(a, b) == a.operation.contract_id = b.operation.contract_id

\* impl PartialEq for VerifiedOperation: self.0 == other.0
VerifiedEq(a, b) == a.opid = b.opid

\* impl Ord for VerifiedOperation: self.0.cmp(&other.0), the order of the ids
\* being that of their bytes
VerifiedCmp(a, b) == IF a.opid = b.opid THEN "Equal" ELSE "LessOrGreater"

\* ContractId::from_byte_array([b; 32])
Bytes32(b) == <<"bytes32", b>>

\* a conversion that binds the operation to one fixed contract id
ToOperationFixed(genesis, cid) ==
    [version |-> genesis.version, contract_id |-> Bytes32(255),
     call_id |-> genesis.call_id, nonce |-> genesis.nonce,
     destructible_in |-> <<>>, immutable_in |-> <<>>,
     destructible_out |-> genesis.destructible_out,
     immutable_out |-> genesis.immutable_out]

\* Genesis::to_operation
ToOperation(genesis, cid) ==
    [version |-> genesis.version, contract_id |-> cid,
     call_id |-> genesis.call_id, nonce |-> genesis.nonce,
     destructible_in |-> <<>>, immutable_in |-> <<>>,
     destructible_out |-> genesis.destructible_out,
     immutable_out |-> genesis.immutable_out]

\* Genesis::opid
GenesisOpid(genesis, cid) == Opid(ToOperation(genesis, cid))

----------------------------------------------------------------------------
(* Codex::verify, src/src/codex.rs *)

\* Memory::destructible
MemDestructible(mem, addr) == mem.destructible[addr]

\* Memory::immutable
MemImmutable(mem, addr) == mem.immutable[addr]

\* LibRepo::get_lib
GetLib(r, lib_id) == r[lib_id]

\* a resolver that trusts the repository
ResolverPanicsNever(r, lib_id) == FALSE

\* the resolver closure of verify panics on a library of another id
ResolverPanics(r, lib_id) ==
    IsSome(GetLib(r, lib_id)) /\ LibIdOf(Unwrap(GetLib(r, lib_id))) # lib_id

\* a map in which no call has an entry point
MapGetNone(m, k) == None

\* line 231: codex.verifiers.get(&call_id)
MapGet(m, k) == IF k \in DOMAIN m THEN Some(m[k]) ELSE None

\* CallError variants and the other outcomes of verify
Pending == [tag |-> "Pending"]

Panic == [tag |-> "Panic"]

WrongContract(e, f) == [tag |-> "WrongContract", expected |-> e, found |-> f]

NotFound(c) == [tag |-> "NotFound", call_id |-> c]

NoReadOnceInput(a) == [tag |-> "NoReadOnceInput", addr |-> a]

NoImmutableInput(a) == [tag |-> "NoImmutableInput", addr |-> a]

Lock(c) == [tag |-> "Lock", code |-> c]

Script(c) == [tag |-> "Script", code |-> c]

ScriptUnspecified == [tag |-> "ScriptUnspecified"]

OkResult(v) == [tag |-> "Ok", verified |-> v]

\* a verifier that accepts an operation of any contract
ContractMismatchNever(op, cid) == FALSE

\* line 171: the operation is bound to another contract
ContractMismatch(op, cid) == op.contract_id # cid

\* a verifier that ignores the status of the lock script
\* an input VM that keeps what the lock script left in it
ResetInputVmKeep(core) == core

\* line 209, vm_inputs.reset(): the input VM is as new before the next input
ResetInputVm(core) == GfaCoreWith

LockFailedNever(core) == FALSE

\* line 204: the lock script ended with Status::Fail
LockFailed(core) == core.ck = Fail

\* a verifier that reads the error code of a lock from E1, as the main script's is
LockErrorE1(core) == Lock(core.E["E1"])

\* line 206: the error code is read from the output register E8
LockError(core) == Lock(core.E["E8"])

\* a verifier that records an empty value in place of the cell's data
PushInputNone(list, cell) == Append(list, SvNone)

\* line 213: destructible_inputs.push(cell.data)
PushInput(list, cell) == Append(list, cell.data)

\* a verifier that accepts the operation whatever the status of the main script
MainResultOkAlways(core, op) == OkResult(VerifiedOperation(Opid(op), op))

\* a verifier that reports an empty E1 as the code zero
MainResultUnwrapOrZero(core, op) ==
    IF core.ck = Ok
    THEN OkResult(VerifiedOperation(Opid(op), op))
    ELSE Script(IF IsSome(core.E["E1"]) THEN Unwrap(core.E["E1"]) ELSE 0)

\* lines 243-252: the status of the main script becomes the result of verify
MainResult(core, op) ==
    IF core.ck = Ok
    THEN OkResult(VerifiedOperation(Opid(op), op))
    ELSE IF IsSome(core.E["E1"])
         THEN Script(Unwrap(core.E["E1"]))
         ELSE ScriptUnspecified

\* the witness registers of phase 1
WitnessRegs == <<"E2", "E3", "E4", "E5">>

\* the loop over [E2, E3, E4, E5]: set the register, break at the first absent element
RECURSIVE PutWitness(_, _, _)
PutWitness(core, witness, no) ==
    IF no >= Len(WitnessRegs) \/ ~IsSome(StateValueGet(witness, no))
    THEN core
    ELSE PutWitness([core EXCEPT !.E[WitnessRegs[no + 1]] = StateValueGet(witness, no)],
                    witness, no + 1)

\* a verifier that loads the witness but not the auth token
LoadLockRegsNoAuth(core, cell, input) == PutWitness(core, input.witness, 0)

\* registers of the input VM before the lock script of a cell runs
LoadLockRegs(core, cell, input) ==
    PutWitness([core EXCEPT !.E["E1"] = Some(ToFe256(cell.auth))], input.witness, 0)

\* a context that lists the resolved destructible inputs last to first
VmContextReversed(dest, imm, op) ==
    [witness |-> SvNone,
     destructible_input |->
        [k \in 1..Len(dest) |->
            [input |-> op.destructible_in[k],
             cell |-> [data |-> dest[Len(dest) + 1 - k], auth |-> 0, lock |-> None]]],
     immutable_input |-> imm,
     destructible_output |-> op.destructible_out,
     immutable_output |-> op.immutable_out]

\* the VmContext verify builds for the main script. verify records the data of
\* each destructible input; VmContext of src/src/isa/exec.rs holds, per input,
\* the Input and a cell, of which the main script of verify reads the data.
VmContext(dest, imm, op) ==
    [witness |-> SvNone,
     destructible_input |->
        [k \in 1..Len(dest) |->
            [input |-> op.destructible_in[k],
             cell |-> [data |-> dest[k], auth |-> 0, lock |-> None]]],
     immutable_input |-> imm,
     destructible_output |-> op.destructible_out,
     immutable_output |-> op.immutable_out]

\* Vm::exec, entering a library: what the resolver and the seek to the offset give
CallOutcome(r, st) ==
    IF ~IsSome(GetLib(r, st.lib_id)) THEN "absent"
    ELSE IF ResolverPanics(r, st.lib_id) THEN "panic"
    ELSE IF st.offset >= Len(Unwrap(GetLib(r, st.lib_id)).code) THEN "eof"
    ELSE "run"

\* the complexity every executed instruction adds to the counter of the core
Complexity(instr) == 1

\* the counter after one more instruction; without a limit the counter decides
\* nothing and is left alone
Accumulate(core, instr, config) ==
    IF IsSome(config.complexity_lim)
    THEN [core EXCEPT !.cy = @ + Complexity(instr)] ELSE core

\* the complexity limit of the configuration is reached
LimitReached(core, config) ==
    IsSome(config.complexity_lim) /\ core.cy >= Unwrap(config.complexity_lim)

\* Lib::exec: the effect of one executed instruction on CK, the position and halting
AfterStep(r, instr, offset, len, config) ==
    LET core == Accumulate(r.core, instr, config)
    IN  CASE LimitReached(core, config) ->
                [core |-> [core EXCEPT !.ck = Fail], offset |-> offset, halted |-> TRUE]
          [] OTHER ->
             CASE r.step = "Stop" -> [core |-> core, offset |-> offset, halted |-> TRUE]
               [] r.step = "FailHalt" ->
                     [core |-> [core EXCEPT !.ck = Fail], offset |-> offset,
                      halted |-> TRUE]
               [] r.step = "Fail" ->
                     [core |-> [core EXCEPT !.ck = Fail], offset |-> offset + 1,
                      halted |-> config.halt \/ offset + 1 >= len]
               [] r.step = "Jump" ->
                     [core |-> core, offset |-> r.pos, halted |-> r.pos >= len]
               [] r.step = "Next" ->
                     [core |-> core, offset |-> offset + 1, halted |-> offset + 1 >= len]

\* a verifier that keeps the input VM of its previous call
ReuseInputVm(old) == IF old.co = "-" THEN GfaCoreWith ELSE old

\* lines 179-181: every call of verify creates its input VM
NewInputVm(old) == GfaCoreWith

\* a verifier whose input VM has no complexity limit
InputConfigUnlimited(cdx) == [cdx.input_config EXCEPT !.complexity_lim = None]

\* the configuration verify gives the VM of the lock scripts
InputConfig(cdx) == cdx.input_config

\* a verifier whose main VM has no complexity limit
VerificationConfigUnlimited(cdx) == [cdx.verification_config EXCEPT !.complexity_lim = None]

\* the configuration verify gives the VM of the main script
VerificationConfig(cdx) == cdx.verification_config

\* a verifier that never reads the immutable inputs
AfterImmutableSkip(n) == "entry"

\* where verify continues after the immutable input n - 1
AfterImmutable(n) == IF n < Len(operation.immutable_in) THEN "immutable" ELSE "entry"

\* where verify continues after the destructible input n - 1
\* a loop over the inputs that counts them by the list of destructible outputs
AfterInputByOutputs(n) ==
    IF n < Len(operation.destructible_out) THEN "inputs" ELSE AfterImmutable(0)

AfterInput(n) == IF n < Len(operation.destructible_in) THEN "inputs" ELSE AfterImmutable(0)

----------------------------------------------------------------------------
(* The inputs of verify: bounded sets of codices, operations, memories, repos *)

MaxDestIn == 2

MaxImmIn == 2

SeqUpTo(S, n) == UNION {[1..k -> S] : k \in 0..n}

ContractIds == {1, 2}

CallIds == {0, 1}

\* CellAddr::new
CellAddr(opid, pos) == [opid |-> opid, pos |-> pos]

Addrs == {CellAddr(0, 0), CellAddr(0, 1)}

\* the witnesses of phase 2: the lock of the input fails without one and passes
\* with the secret
Witnesses == {SvNone, Single(SECRET)}

\* the inputs of phase 1: each address is spent with two of the witnesses
Inputs ==
    [addr : {CellAddr(0, 0)}, witness : {SvNone, Single(SECRET)}]
        \cup [addr : {CellAddr(0, 1)}, witness : {Double(SECRET, 1), Quadripple(SECRET, 1, 2, 3)}]

lock_stop == LibSite(LibIdOf(lib_lock), 0)

lock_secret == LibSite(LibIdOf(lib_lock), 1)

lock_rest == LibSite(LibIdOf(lib_lock), 9)

Cells ==
    {[data |-> Single(7), auth |-> 0, lock |-> None],
     [data |-> Single(7), auth |-> SECRET, lock |-> None],
     [data |-> SvNone, auth |-> 0, lock |-> Some(lock_stop)],
     [data |-> SvNone, auth |-> SECRET, lock |-> Some(lock_secret)],
     [data |-> SvNone, auth |-> 0, lock |-> Some(lock_secret)],
     [data |-> Double(7, 8), auth |-> 0, lock |-> Some(lock_rest)]}

OptionOf(S) == {None} \cup {Some(x) : x \in S}

DestMemories == [Addrs -> OptionOf(Cells)]

\* immutable memories: an address holds nothing or a value of its own
ImmMemories ==
    {[a \in Addrs |-> IF a \in S THEN Some(Single(5 + a.pos)) ELSE None] :
        S \in SUBSET Addrs}

\* test::DumbMemory
DumbMemory(d, i) == [destructible |-> d, immutable |-> i]

EmptyMemory == DumbMemory([a \in Addrs |-> None], [a \in Addrs |-> None])

\* impl LibRepo for Lib: the one library, under its own id
RepoOf(lib) == [id \in LibIds |-> IF id = LibIdOf(lib) THEN Some(lib) ELSE None]

\* every library under its own id
RepoAll == [id \in LibIds |-> Some(Libs[id])]

\* test::verify_wrong_lib_id, InvalidRepo: one library under every id
InvalidRepo(lib) == [id \in LibIds |-> Some(lib)]

Repos == {RepoAll, RepoOf(lib_success), RepoOf(lib_lock), InvalidRepo(lib_failure_one)}

EntryPoints ==
    {LibSite(LibIdOf(lib_success), 0), LibSite(LibIdOf(lib_success), 1),
     LibSite(LibIdOf(lib_failure_none), 0), LibSite(LibIdOf(lib_failure_one), 0),
     LibSite(LibIdOf(lib_failure_zero), 0), LibSite(LibIdOf(lib_iter), 0)}

\* the complexity limit of the codex of the test stand
COMPLEXITY_LIM == 10000000

CoreConfig(halt, complexity_lim) == [halt |-> halt, complexity_lim |-> complexity_lim]

\* struct Codex: the fields verify reads
CodexWith(verifiers, input_config, verification_config) ==
    [verifiers |-> verifiers,
     input_config |-> input_config,
     verification_config |-> verification_config]

\* test::test_stand_repo: the codex of the tests, with its verifiers
Codex(verifiers, input_halt, halt) ==
    CodexWith(verifiers, CoreConfig(input_halt, Some(COMPLEXITY_LIM)),
              CoreConfig(halt, Some(COMPLEXITY_LIM)))

Operation(cid, call_id, din, iin, dout, iout) ==
    [version |-> 0, contract_id |-> cid, call_id |-> call_id, nonce |-> 0,
     destructible_in |-> din, immutable_in |-> iin,
     destructible_out |-> dout, immutable_out |-> iout]

Outputs ==
    {<<<<>>, <<>>>>,
     <<<<[data |-> Single(3), auth |-> 0, lock |-> None]>>,
       <<[value |-> Single(4), raw |-> None]>>>>}

\* no context built yet
NoContext ==
    [witness |-> SvNone, destructible_input |-> <<>>, immutable_input |-> <<>>,
     destructible_output |-> <<>>, immutable_output |-> <<>>]

\* no second call
\* the instructions of a category
LdOp(cat) ==
    CASE cat = IN_RO -> "LdIRo" [] cat = IN_AO -> "LdIAo"
      [] cat = OUT_RO -> "LdORo" [] cat = OUT_AO -> "LdOAo"

CkOp(cat) ==
    CASE cat = IN_RO -> "CkNxIRo" [] cat = IN_AO -> "CkNxIAo"
      [] cat = OUT_RO -> "CkNxORo" [] cat = OUT_AO -> "CkNxOAo"

RstOp(cat) ==
    CASE cat = IN_RO -> "RstIRo" [] cat = IN_AO -> "RstIAo"
      [] cat = OUT_RO -> "RstORo" [] cat = OUT_AO -> "RstOAo"

DataRegs == <<"EA", "EB", "EC", "ED">>

\* no function called
NoSubject == [kind |-> "none"]

\* nothing loaded yet
NoVisit == [cat \in IoCats |-> <<>>]

NoCall == <<>>

\* the state before verify runs
InitRun ==
    /\ pc = "start"
    /\ idx = 0
    /\ vm_inputs = NoVm
    /\ vm_main = NoVm
    /\ site = LibSite(0, 0)
    /\ destructible_inputs = <<>>
    /\ immutable_inputs = <<>>
    /\ context = NoContext
    /\ result = Pending
    /\ log = <<>>
    /\ visited = NoVisit
    /\ subject = NoSubject

\* phase 1 in full: every list of destructible inputs over every destructible memory
InitInputs ==
    /\ contract_id = 1
    /\ \E input_halt \in BOOLEAN :
          codex = Codex(0 :> LibSite(LibIdOf(lib_success), 0), input_halt, TRUE)
    /\ repo = RepoAll
    /\ \E din \in SeqUpTo(Inputs, MaxDestIn), i \in 0..1 :
          operation = Operation(1, 0, din,
                                IF i = 0 THEN <<>> ELSE <<CellAddr(0, 0)>>, <<>>, <<>>)
    /\ \E d \in DestMemories :
          memory = DumbMemory(d, [a \in Addrs |-> None])

\* the immutable inputs and phase 2 in full, over a few lists of destructible inputs
InitCall ==
    /\ contract_id = 1
    /\ \E e \in EntryPoints, halt \in BOOLEAN, present \in BOOLEAN :
          codex = Codex(IF present THEN 0 :> e ELSE <<>>, TRUE, halt)
    /\ repo \in Repos
    /\ \E cid \in ContractIds, call_id \in CallIds, iin \in SeqUpTo(Addrs, MaxImmIn),
          out \in Outputs, w \in Witnesses, n \in 0..1 :
          operation = Operation(cid, call_id,
                                IF n = 0 THEN <<>>
                                ELSE <<[addr |-> CellAddr(0, n), witness |-> w]>>,
                                iin, out[1], out[2])
    /\ \E i \in ImmMemories :
          memory = DumbMemory([a \in Addrs |->
                                 IF a.pos = 0 THEN None
                                 ELSE Some([data |-> Single(9), auth |-> SECRET,
                                            lock |-> Some(lock_secret)])], i)

Init == InitRun /\ other = NoCall /\ (InitInputs \/ InitCall)

MaxComplexity == 4

\* scripts that stop and scripts that loop, under every pair of small finite limits
InitLimit ==
    /\ InitRun
    /\ other = NoCall
    /\ contract_id = 1
    /\ \E e \in {LibSite(LibIdOf(lib_loop), 0), LibSite(LibIdOf(lib_loop_one), 0),
                  LibSite(LibIdOf(lib_success), 0)},
          input_lim \in 1..MaxComplexity, lim \in 1..MaxComplexity, halt \in BOOLEAN :
          codex = CodexWith(0 :> e, CoreConfig(TRUE, Some(input_lim)),
                            CoreConfig(halt, Some(lim)))
    /\ repo = RepoAll
    /\ \E n \in 0..1, iin \in SeqUpTo({CellAddr(0, 0)}, 1) :
          operation = Operation(1, 0,
                                IF n = 0 THEN <<>>
                                ELSE <<[addr |-> CellAddr(0, 1), witness |-> SvNone]>>,
                                iin, <<>>, <<>>)
    /\ \E lock \in {lock_stop, LibSite(LibIdOf(lib_loop), 0),
                     LibSite(LibIdOf(lib_loop_one), 1)} :
          memory = DumbMemory([a \in Addrs |->
                                 Some([data |-> SvNone, auth |-> SECRET,
                                       lock |-> Some(lock)])],
                              [a \in Addrs |-> Some(Single(5))])

\* ---- Codex::verify ----

\* a loop that reads the first input whatever the index
FirstInput == operation.destructible_in[1]

\* line 183: the destructible input the loop of phase 1 is at
CurInput == operation.destructible_in[idx + 1]

\* the cell Memory::destructible returned for it
CurCell == Unwrap(MemDestructible(memory, CurInput.addr))

\* lines 171-182: the contract binding check, then the input VM is created
CheckContract ==
    /\ pc = "start"
    /\ IF ContractMismatch(operation, contract_id)
       THEN /\ result' = WrongContract(contract_id, operation.contract_id)
            /\ pc' = "done"
            /\ UNCHANGED <<vm_inputs, log>>
       ELSE /\ vm_inputs' = NewInputVm(vm_inputs)
            /\ log' = Append(log, <<"Vm::with", 1>>)
            /\ pc' = AfterInput(0)
            /\ UNCHANGED result
    /\ UNCHANGED <<kept, idx, vm_main, site, destructible_inputs, immutable_inputs>>

\* lines 183-203 and 211-214: one destructible input is read from the memory; a
\* locked cell has its registers loaded, an unlocked one is recorded
VerifyInput ==
    /\ pc = "inputs"
    /\ idx < Len(operation.destructible_in)
    /\ log' = Append(log, <<"destructible", idx>>)
    /\ LET cell == MemDestructible(memory, CurInput.addr)
       IN  IF ~IsSome(cell)
           THEN /\ result' = NoReadOnceInput(CurInput.addr)
                /\ pc' = "done"
                /\ UNCHANGED <<idx, vm_inputs, site, destructible_inputs>>
           ELSE IF IsSome(Unwrap(cell).lock)
           THEN /\ vm_inputs' = LoadLockRegs(vm_inputs, Unwrap(cell), CurInput)
                /\ site' = Unwrap(Unwrap(cell).lock)
                /\ pc' = "lock_call"
                /\ UNCHANGED <<idx, destructible_inputs, result>>
           ELSE /\ destructible_inputs' = PushInput(destructible_inputs, Unwrap(cell))
                /\ idx' = IF idx + 1 < Len(operation.destructible_in) THEN idx + 1 ELSE 0
                /\ pc' = AfterInput(idx + 1)
                /\ UNCHANGED <<vm_inputs, site, result>>
    /\ UNCHANGED <<kept, vm_main, immutable_inputs>>

\* line 204, vm_inputs.exec(lock, ..) entering the library of the lock
LockCall ==
    /\ pc = "lock_call"
    /\ log' = log \o <<<<"exec_lock", idx>>, <<"get_lib", site.lib_id>>>>
    /\ LET out == CallOutcome(repo, site)
       IN  /\ pc' = CASE out = "panic" -> "done"
                      [] out = "run" -> "lock_run"
                      [] OTHER -> "lock_ret"
           /\ result' = IF out = "panic" THEN Panic ELSE result
           /\ vm_inputs' = IF out \in {"absent", "eof"}
                           THEN [vm_inputs EXCEPT !.ck = Fail] ELSE vm_inputs
    /\ UNCHANGED <<kept, idx, vm_main, site, destructible_inputs, immutable_inputs>>

\* line 204, one instruction of the lock script
LockStep ==
    /\ pc = "lock_run"
    /\ LET code == Unwrap(GetLib(repo, site.lib_id)).code
           r == AfterStep(ExecGfaInstr(vm_inputs, code[site.offset + 1]),
                          code[site.offset + 1], site.offset, Len(code),
                          InputConfig(codex))
       IN  /\ vm_inputs' = r.core
           /\ site' = [site EXCEPT !.offset = r.offset]
           /\ pc' = IF r.halted THEN "lock_ret" ELSE "lock_run"
    /\ UNCHANGED <<kept, idx, vm_main, destructible_inputs, immutable_inputs, result, log>>

\* lines 204-214: the status of the lock script; on Ok the VM is reset and the
\* cell's data recorded
LockReturn ==
    /\ pc = "lock_ret"
    /\ IF LockFailed(vm_inputs)
       THEN /\ result' = LockError(vm_inputs)
            /\ pc' = "done"
            /\ UNCHANGED <<idx, vm_inputs, destructible_inputs>>
       ELSE /\ vm_inputs' = ResetInputVm(vm_inputs)
            /\ destructible_inputs' = PushInput(destructible_inputs, CurCell)
            /\ idx' = IF idx + 1 < Len(operation.destructible_in) THEN idx + 1 ELSE 0
            /\ pc' = AfterInput(idx + 1)
            /\ UNCHANGED result
    /\ UNCHANGED <<kept, vm_main, site, immutable_inputs, log>>

\* lines 218-227: one immutable input is read from the memory
VerifyImmutable ==
    /\ pc = "immutable"
    /\ idx < Len(operation.immutable_in)
    /\ log' = Append(log, <<"immutable", idx>>)
    /\ LET addr == operation.immutable_in[idx + 1]
           data == MemImmutable(memory, addr)
       IN  IF ~IsSome(data)
           THEN /\ result' = NoImmutableInput(addr)
                /\ pc' = "done"
                /\ UNCHANGED <<idx, immutable_inputs>>
           ELSE /\ immutable_inputs' = Append(immutable_inputs, Unwrap(data))
                /\ idx' = IF idx + 1 < Len(operation.immutable_in) THEN idx + 1 ELSE 0
                /\ pc' = AfterImmutable(idx + 1)
                /\ UNCHANGED result
    /\ UNCHANGED <<kept, vm_inputs, vm_main, site, destructible_inputs>>

\* lines 230-242: the entry point of the call, the context and the main VM
EntryPoint ==
    /\ pc = "entry"
    /\ LET entry_point == MapGet(codex.verifiers, operation.call_id)
       IN  IF ~IsSome(entry_point)
           THEN /\ result' = NotFound(operation.call_id)
                /\ pc' = "done"
                /\ UNCHANGED <<context, vm_main, site, log>>
           ELSE /\ context' = VmContext(destructible_inputs, immutable_inputs, operation)
                /\ vm_main' = UsonicCoreWith
                /\ site' = Unwrap(entry_point)
                /\ log' = Append(log, <<"Vm::with", 2>>)
                /\ pc' = "main_call"
                /\ UNCHANGED result
    /\ UNCHANGED <<args, other, visited, subject, idx, vm_inputs, destructible_inputs,
                   immutable_inputs>>

\* line 243, vm_main.exec(entry_point, ..) entering the library of the verifier
MainCall ==
    /\ pc = "main_call"
    /\ log' = log \o <<<<"exec_main", 0>>, <<"get_lib", site.lib_id>>>>
    /\ LET out == CallOutcome(repo, site)
       IN  /\ pc' = CASE out = "panic" -> "done"
                      [] out = "run" -> "main_run"
                      [] OTHER -> "main_ret"
           /\ result' = IF out = "panic" THEN Panic ELSE result
           /\ vm_main' = IF out \in {"absent", "eof"}
                         THEN [vm_main EXCEPT !.ck = Fail] ELSE vm_main
    /\ UNCHANGED <<kept, idx, vm_inputs, site, destructible_inputs, immutable_inputs>>

\* line 243, one instruction of the main script
MainStep ==
    /\ pc = "main_run"
    /\ LET code == Unwrap(GetLib(repo, site.lib_id)).code
           r == AfterStep(ExecInstr(vm_main, code[site.offset + 1], context),
                          code[site.offset + 1], site.offset, Len(code),
                          VerificationConfig(codex))
       IN  /\ vm_main' = r.core
           /\ site' = [site EXCEPT !.offset = r.offset]
           /\ pc' = IF r.halted THEN "main_ret" ELSE "main_run"
    /\ UNCHANGED <<kept, idx, vm_inputs, destructible_inputs, immutable_inputs, result, log>>

\* lines 243-252: the status of the main script becomes the result
MainReturn ==
    /\ pc = "main_ret"
    /\ result' = MainResult(vm_main, operation)
    /\ pc' = "done"
    /\ UNCHANGED <<kept, idx, vm_inputs, vm_main, site, destructible_inputs,
                   immutable_inputs, log>>

Next ==
    \/ CheckContract
    \/ VerifyInput
    \/ LockCall
    \/ LockStep
    \/ LockReturn
    \/ VerifyImmutable
    \/ EntryPoint
    \/ MainCall
    \/ MainStep
    \/ MainReturn

Spec == Init /\ [][Next]_vars

\* ---- two calls of verify ----

\* the locals of the running call
Locals ==
    [pc |-> pc, idx |-> idx, vm_inputs |-> vm_inputs, vm_main |-> vm_main, site |-> site,
     destructible_inputs |-> destructible_inputs, immutable_inputs |-> immutable_inputs,
     context |-> context, result |-> result, log |-> log]

\* a call of verify about to start
NewCall(case) ==
    [args |-> case,
     locals |-> [pc |-> "start", idx |-> 0, vm_inputs |-> NoVm, vm_main |-> NoVm,
                 site |-> LibSite(0, 0), destructible_inputs |-> <<>>,
                 immutable_inputs |-> <<>>, context |-> NoContext, result |-> Pending,
                 log |-> <<>>]]

\* the arguments of the calls: two verifiers, an operation without destructible
\* input or with one whose lock fails or passes
CallCases ==
    {<<Codex(0 :> e, TRUE, TRUE), 1,
       Operation(1, 0, din, <<CellAddr(0, 0)>>, <<>>, <<>>),
       DumbMemory([a \in Addrs |->
                     Some([data |-> Single(7), auth |-> SECRET,
                           lock |-> Some(lock_secret)])],
                  [a \in Addrs |-> Some(Single(5))]),
       RepoAll>> :
       e \in {LibSite(LibIdOf(lib_success), 0), LibSite(LibIdOf(lib_iter), 0)},
       din \in {<<>>, <<[addr |-> CellAddr(0, 1), witness |-> SvNone]>>,
                <<[addr |-> CellAddr(0, 1), witness |-> Single(SECRET)]>>}}

InitCalls ==
    /\ InitRun
    /\ \E case \in CallCases :
          /\ codex = case[1]
          /\ contract_id = case[2]
          /\ operation = case[3]
          /\ memory = case[4]
          /\ repo = case[5]
    /\ \E case \in CallCases : other = NewCall(case)

\* the caller calls verify again once a call has returned; the locals of the new
\* call that verify has not written yet hold what the stack held
Restart ==
    /\ pc = "done"
    /\ \E case \in CallCases :
          /\ codex' = case[1]
          /\ contract_id' = case[2]
          /\ operation' = case[3]
          /\ memory' = case[4]
          /\ repo' = case[5]
    /\ pc' = "start"
    /\ idx' = 0
    /\ destructible_inputs' = <<>>
    /\ immutable_inputs' = <<>>
    /\ result' = Pending
    /\ log' = <<>>
    /\ UNCHANGED <<other, vm_inputs, vm_main, site, context, visited, subject>>

\* the scheduler suspends the running call and resumes the other one
Switch ==
    /\ other' = [args |-> args, locals |-> Locals]
    /\ codex' = other.args[1]
    /\ contract_id' = other.args[2]
    /\ operation' = other.args[3]
    /\ memory' = other.args[4]
    /\ repo' = other.args[5]
    /\ pc' = other.locals.pc
    /\ idx' = other.locals.idx
    /\ vm_inputs' = other.locals.vm_inputs
    /\ vm_main' = other.locals.vm_main
    /\ site' = other.locals.site
    /\ destructible_inputs' = other.locals.destructible_inputs
    /\ immutable_inputs' = other.locals.immutable_inputs
    /\ context' = other.locals.context
    /\ result' = other.locals.result
    /\ log' = other.locals.log
    /\ UNCHANGED <<visited, subject>>

NextCalls ==
    \/ Next
    \/ Restart
    \/ Switch

SpecCalls == InitCalls /\ [][NextCalls]_vars

----------------------------------------------------------------------------
(* Two operations that spend the same inputs *)

\* the lists of destructible inputs of the pair: none, one whose lock passes,
\* one whose lock fails with a code, one that the memory does not hold
PhaseInputs ==
    {<<>>,
     <<[addr |-> CellAddr(0, 0), witness |-> Single(SECRET)]>>,
     <<[addr |-> CellAddr(0, 0), witness |-> SvNone]>>,
     <<[addr |-> CellAddr(0, 1), witness |-> SvNone]>>}

\* the operations of a contract over a list of destructible inputs: every call
\* id, two nonces, immutable inputs that the memory holds or not, and outputs
PhaseOperations(din) ==
    {[Operation(1, call_id, din, iin, out[1], out[2]) EXCEPT !.nonce = nonce] :
        call_id \in CallIds, nonce \in {0, 1},
        iin \in {<<>>, <<CellAddr(0, 0)>>, <<CellAddr(0, 1)>>}, out \in Outputs}

\* the arguments of a call on such an operation: one codex, memory and repo
PhaseCase(op) ==
    <<Codex(0 :> LibSite(LibIdOf(lib_success), 0), TRUE, TRUE), 1, op,
      DumbMemory([a \in Addrs |->
                    IF a.pos = 0
                    THEN Some([data |-> Single(7), auth |-> SECRET,
                               lock |-> Some(lock_secret)])
                    ELSE None],
                 [a \in Addrs |-> IF a.pos = 0 THEN Some(Single(5)) ELSE None]),
      RepoAll>>

\* two calls of verify on two operations with the same destructible inputs
InitPhase ==
    /\ InitRun
    /\ \E din \in PhaseInputs :
          /\ \E op \in PhaseOperations(din) :
                /\ codex = PhaseCase(op)[1]
                /\ contract_id = PhaseCase(op)[2]
                /\ operation = op
                /\ memory = PhaseCase(op)[4]
                /\ repo = PhaseCase(op)[5]
          /\ \E op \in PhaseOperations(din) : other = NewCall(PhaseCase(op))

NextPhase ==
    \/ Next
    \/ Switch

SpecPhase == InitPhase /\ [][NextPhase]_vars

\* ---- the USONIC instructions, src/src/isa/exec.rs ----

MaxIsaList == 2

\* the destructible inputs a context is cut from: an Input and the cell it spends
IsaDestructibleInput ==
    <<[input |-> [addr |-> CellAddr(0, 0), witness |-> Single(11)],
       cell |-> [data |-> Double(21, 22), auth |-> 5, lock |-> None]],
      [input |-> [addr |-> CellAddr(0, 1), witness |-> SvNone],
       cell |-> [data |-> SvNone, auth |-> 6,
                 lock |-> Some([aux |-> Single(31), script |-> None])]],
      [input |-> [addr |-> CellAddr(1, 0), witness |-> Triple(12, 13, 14)],
       cell |-> [data |-> Quadripple(23, 24, 25, 26), auth |-> 7,
                 lock |-> Some([aux |-> SvNone, script |-> Some(lock_stop)])]]>>

IsaImmutableInput == <<Single(41), Triple(42, 43, 44), SvNone>>

IsaDestructibleOutput ==
    <<[data |-> Quadripple(51, 52, 53, 54), auth |-> 8, lock |-> None],
      [data |-> Single(55), auth |-> 9, lock |-> None],
      [data |-> Double(56, 57), auth |-> 9, lock |-> None]>>

IsaImmutableOutput ==
    <<[value |-> Triple(61, 62, 63), raw |-> None],
      [value |-> SvNone, raw |-> None],
      [value |-> Single(64), raw |-> None]>>

Prefix(s, n) == SubSeq(s, 1, IF n < Len(s) THEN n ELSE Len(s))

\* the lengths of the four categories: at most two of them hold elements
IsaLengths ==
    {n \in [1..4 -> 0..MaxIsaList] : Cardinality({c \in 1..4 : n[c] > 0}) <= 2}

\* the contexts: every such length of every category, with and without a witness
IsaContexts ==
    {[witness |-> w,
      destructible_input |-> Prefix(IsaDestructibleInput, n[1]),
      immutable_input |-> Prefix(IsaImmutableInput, n[2]),
      destructible_output |-> Prefix(IsaDestructibleOutput, n[3]),
      immutable_output |-> Prefix(IsaImmutableOutput, n[4])] :
      w \in {SvNone, Double(1, 2)}, n \in IsaLengths}

UsonicOps ==
    {"CkNxIRo", "CkNxIAo", "CkNxORo", "CkNxOAo", "LdW", "LdIW", "LdIL", "LdIT",
     "LdIRo", "LdIAo", "LdORo", "LdOAo", "RstIRo", "RstIAo", "RstORo", "RstOAo"}

\* the instructions a script is made of here: every USONIC instruction, and base
\* instructions that change CO and CK
IsaInstrs == {Usonic(op) : op \in UsonicOps} \cup {NotCO, ChkCO}

\* the script runs to its end whatever CK is, and without a complexity limit
IsaConfig == CoreConfig(FALSE, None)

\* a main VM about to run a script over a context
InitIsa ==
    /\ codex = Codex(<<>>, TRUE, FALSE)
    /\ contract_id = 1
    /\ operation = Operation(1, 0, <<>>, <<>>, <<>>, <<>>)
    /\ memory = EmptyMemory
    /\ repo = RepoAll
    /\ pc = "isa"
    /\ idx = 0
    /\ vm_inputs = NoVm
    /\ vm_main = UsonicCoreWith
    /\ site = LibSite(0, 0)
    /\ destructible_inputs = <<>>
    /\ immutable_inputs = <<>>
    /\ context \in IsaContexts
    /\ result = Pending
    /\ log = <<>>
    /\ other = NoCall
    /\ visited = NoVisit
    /\ subject = NoSubject

\* what the script has seen of a category once the instruction has run: a ld*
\* that reported CO = ok adds the registers it filled, a rst* starts over
Visit(seen, instr, core) ==
    [cat \in IoCats |->
        IF instr = Usonic(LdOp(cat)) /\ core.co = Ok
        THEN Append(seen[cat], [no \in 1..4 |-> core.E[DataRegs[no]]])
        ELSE IF instr = Usonic(RstOp(cat)) THEN <<>> ELSE seen[cat]]

\* Instr::exec: the VM executes one instruction of the script; log keeps the
\* instruction executed last
Exec(instr) ==
    /\ pc = "isa"
    /\ log' = <<instr>>
    /\ vm_main' = AfterStep(ExecInstr(vm_main, instr, context), instr, 0, 2, IsaConfig).core
    /\ visited' = Visit(visited, instr, vm_main')
    /\ UNCHANGED <<args, other, context, subject, pc, idx, vm_inputs, site,
                   destructible_inputs, immutable_inputs, result>>

\* the log entry of a reset of the whole core
CoreReset == [isa |-> "Core", op |-> "reset"]

\* the host resets the core between two instructions
Reset ==
    /\ pc = "isa"
    /\ log' = <<CoreReset>>
    /\ vm_main' = UsonicCoreReset(vm_main)
    /\ visited' = NoVisit
    /\ UNCHANGED <<args, other, context, subject, pc, idx, vm_inputs, site,
                   destructible_inputs, immutable_inputs, result>>

NextIsa ==
    \/ \E instr \in IsaInstrs : Exec(instr)
    \/ Reset

SpecIsa == InitIsa /\ [][NextIsa]_vars

----------------------------------------------------------------------------
(* The functions of the library that compute identifiers and values *)

\* Codex::codex_id: the commitment to the codex
CodexId(cdx) == <<"CodexId", cdx>>

LibCodices == {Codex(<<>>, TRUE, TRUE), Codex(<<>>, FALSE, TRUE)}

LibContractIds == {Bytes32(0), Bytes32(7), Bytes32(255)}

Geneses ==
    {[version |-> 0, codex_id |-> CodexId(cdx), call_id |-> c, nonce |-> n,
      blank1 |-> 0, blank2 |-> 0, destructible_out |-> o[1], immutable_out |-> o[2]] :
       cdx \in LibCodices, c \in CallIds, n \in {0, 1}, o \in Outputs}

\* a genesis and the contract ids it is promoted under
GenesisSubjects ==
    [kind : {"genesis"}, genesis : Geneses, contract_id : LibContractIds,
     other_contract_id : LibContractIds]

\* a genesis opid of the issue that is taken under the placeholder once more
IssueGenesisOpidPlaceholder(issue) == GenesisOpid(issue.genesis, Bytes32(255))

\* impl CommitEncode for Issue, Issue::contract_id
IssueContractId(issue) ==
    <<"ContractId", issue.version, issue.meta, CodexId(issue.codex),
      GenesisOpid(issue.genesis, Bytes32(255))>>

\* Issue::genesis_opid
IssueGenesisOpid(issue) == GenesisOpid(issue.genesis, IssueContractId(issue))

Issues ==
    [version : {0}, meta : {[testnet |-> FALSE], [testnet |-> TRUE]}, codex : LibCodices,
     genesis : Geneses]

IssueSubjects == [kind : {"issue"}, issue : Issues]

\* operations that differ in a field, in an element of a list, or in the order
\* of a list
LibOperations ==
    [version : {0}, contract_id : {Bytes32(0), Bytes32(7)}, call_id : CallIds,
     nonce : {0, 1},
     destructible_in : {<<[addr |-> CellAddr(0, 0), witness |-> SvNone],
                          [addr |-> CellAddr(0, 1), witness |-> Single(SECRET)]>>,
                        <<[addr |-> CellAddr(0, 1), witness |-> Single(SECRET)],
                          [addr |-> CellAddr(0, 0), witness |-> SvNone]>>},
     immutable_in : {<<>>, <<CellAddr(0, 0)>>},
     destructible_out : {<<[data |-> Single(3), auth |-> 0, lock |-> None]>>,
                         <<[data |-> Single(3), auth |-> 1, lock |-> None]>>},
     immutable_out : {<<>>, <<[value |-> Single(4), raw |-> None]>>}]

OperationSubjects == [kind : {"operations"}, operation : LibOperations, other : LibOperations]

\* UsonicInstr::START
START == 128

\* the constants CKNXIRO .. RSTOAO that opcode_byte matches the instructions to
OpOffset(op) ==
    CASE op = "CkNxIRo" -> 0
      [] op = "CkNxIAo" -> 1
      [] op = "CkNxORo" -> 2
      [] op = "CkNxOAo" -> 3
      [] op = "LdW" -> 4
      [] op = "LdIW" -> 5
      [] op = "LdIL" -> 6
      [] op = "LdIT" -> 7
      [] op = "LdIRo" -> 8
      [] op = "LdIAo" -> 9
      [] op = "LdORo" -> 10
      [] op = "LdOAo" -> 11
      [] op = "RstIRo" -> 12
      [] op = "RstIAo" -> 13
      [] op = "RstORo" -> 14
      [] op = "RstOAo" -> 15

\* UsonicInstr::END
END == START + OpOffset("RstOAo")

\* <UsonicInstr as Bytecode>::op_range
OpRange == START..END

\* <UsonicInstr as Bytecode>::opcode_byte: a u8
OpcodeByte(instr) == (START + OpOffset(instr.op)) % 256

\* <UsonicInstr as Bytecode>::code_byte_len
CodeByteLen(instr) == 1

\* <UsonicInstr as Bytecode>::encode_operands: the bytes written
EncodeOperands(instr) == <<>>

\* unreachable!(), or the subtraction overflowed
DecodePanic == [isa |-> "panic"]

\* a decoder that takes ldi witness and ldi lock for each other
DecodeOperandsSwapped(opcode) ==
    LET off == (opcode - START) % 256
    IN
        CASE off = 0 -> Usonic("CkNxIRo")
          [] off = 1 -> Usonic("CkNxIAo")
          [] off = 2 -> Usonic("CkNxORo")
          [] off = 3 -> Usonic("CkNxOAo")
          [] off = 4 -> Usonic("LdW")
          [] off = 5 -> Usonic("LdIL")
          [] off = 6 -> Usonic("LdIW")
          [] off = 7 -> Usonic("LdIT")
          [] off = 8 -> Usonic("LdIRo")
          [] off = 9 -> Usonic("LdIAo")
          [] off = 10 -> Usonic("LdORo")
          [] off = 11 -> Usonic("LdOAo")
          [] off = 12 -> Usonic("RstIRo")
          [] off = 13 -> Usonic("RstIAo")
          [] off = 14 -> Usonic("RstORo")
          [] off = 15 -> Usonic("RstOAo")
          [] OTHER -> DecodePanic

\* <UsonicInstr as Bytecode>::decode_operands: a match on opcode - START
DecodeOperands(opcode) ==
    LET off == (opcode - START) % 256
    IN
        CASE off = 0 -> Usonic("CkNxIRo")
          [] off = 1 -> Usonic("CkNxIAo")
          [] off = 2 -> Usonic("CkNxORo")
          [] off = 3 -> Usonic("CkNxOAo")
          [] off = 4 -> Usonic("LdW")
          [] off = 5 -> Usonic("LdIW")
          [] off = 6 -> Usonic("LdIL")
          [] off = 7 -> Usonic("LdIT")
          [] off = 8 -> Usonic("LdIRo")
          [] off = 9 -> Usonic("LdIAo")
          [] off = 10 -> Usonic("LdORo")
          [] off = 11 -> Usonic("LdOAo")
          [] off = 12 -> Usonic("RstIRo")
          [] off = 13 -> Usonic("RstIAo")
          [] off = 14 -> Usonic("RstORo")
          [] off = 15 -> Usonic("RstOAo")
          [] OTHER -> DecodePanic

\* two instructions to encode
InstrSubjects ==
    [kind : {"instr"}, instr : {Usonic(op) : op \in UsonicOps},
     other : {Usonic(op) : op \in UsonicOps}]

\* a byte to decode
ByteSubjects == [kind : {"byte"}, byte : 0..255]

\* field elements: zero and another one
FieldElements == {0, 1}

\* every state value over the field elements
StateValues ==
    {SvNone}
        \cup {Single(a) : a \in FieldElements}
        \cup {Double(a, b) : a, b \in FieldElements}
        \cup {Triple(a, b, c) : a, b, c \in FieldElements}
        \cup {Quadripple(a, b, c, d) : a, b, c, d \in FieldElements}

\* the values of a u8
Positions == 0..255

ValueSubjects == [kind : {"value"}, value : StateValues]

\* arrays of n bytes that are zero but for one byte, the first or one of the
\* last three
SparseBytes(n) ==
    {[k \in 1..n |-> IF k = p THEN v ELSE 0] : p \in {1, n - 2, n - 1, n}, v \in {0, 1, 255}}

\* a field element to make a token of, in a debug or a release build
TokenSubjects == [kind : {"token"}, fe : SparseBytes(32), debug : BOOLEAN]

\* 30 bytes to make a token of
ArraySubjects == [kind : {"array"}, bytes : SparseBytes(30), debug : BOOLEAN]

Subjects ==
    GenesisSubjects \cup IssueSubjects \cup OperationSubjects \cup ValueSubjects
        \cup InstrSubjects \cup ByteSubjects \cup TokenSubjects \cup ArraySubjects

InitLib ==
    /\ codex = Codex(<<>>, TRUE, FALSE)
    /\ contract_id = 1
    /\ operation = Operation(1, 0, <<>>, <<>>, <<>>, <<>>)
    /\ memory = EmptyMemory
    /\ repo = RepoAll
    /\ pc = "lib"
    /\ idx = 0
    /\ vm_inputs = NoVm
    /\ vm_main = NoVm
    /\ site = LibSite(0, 0)
    /\ destructible_inputs = <<>>
    /\ immutable_inputs = <<>>
    /\ context = NoContext
    /\ result = Pending
    /\ log = <<>>
    /\ other = NoCall
    /\ visited = NoVisit
    /\ subject \in Subjects

\* the caller calls function fn on the subject and gets out; log keeps the name
\* of the function called last
Call(fn, out) ==
    /\ pc = "lib"
    /\ log' = <<fn>>
    /\ result' = out
    /\ UNCHANGED <<kept, pc, idx, vm_inputs, vm_main, site, destructible_inputs,
                   immutable_inputs>>

\* genesis.to_operation(contract_id)
CallToOperation ==
    /\ subject.kind = "genesis"
    /\ Call("Genesis::to_operation",
            [operation |-> ToOperation(subject.genesis, subject.contract_id)])

\* genesis.opid(contract_id) and genesis.opid(other_contract_id)
CallGenesisOpid ==
    /\ subject.kind = "genesis"
    /\ Call("Genesis::opid",
            [opid |-> GenesisOpid(subject.genesis, subject.contract_id),
             other_opid |-> GenesisOpid(subject.genesis, subject.other_contract_id)])

\* issue.contract_id()
CallContractId ==
    /\ subject.kind = "issue"
    /\ Call("Issue::contract_id", [contract_id |-> IssueContractId(subject.issue)])

\* issue.genesis_opid()
CallIssueGenesisOpid ==
    /\ subject.kind = "issue"
    /\ Call("Issue::genesis_opid", [genesis_opid |-> IssueGenesisOpid(subject.issue)])

\* operation.opid() and other.opid()
CallOpid ==
    /\ subject.kind = "operations"
    /\ Call("Operation::opid",
            [opid |-> Opid(subject.operation), other_opid |-> Opid(subject.other)])

\* value.get(pos)
CallGet ==
    /\ subject.kind = "value"
    /\ \E pos \in Positions :
          Call("StateValue::get", [pos |-> pos, item |-> StateValueGet(subject.value, pos)])

\* value.into_iter().collect()
CallIntoIter ==
    /\ subject.kind = "value"
    /\ Call("StateValue::into_iter", [items |-> IntoIter(subject.value)])

\* StateValue::from_iter(value)
CallFromIter ==
    /\ subject.kind = "value"
    /\ Call("StateValue::from_iter", [value |-> FromIter(IntoIter(subject.value))])

\* the assembler encodes the instruction, and the disassembler reads it back
CallOpcodeByte ==
    /\ subject.kind = "instr"
    /\ Call("UsonicInstr::opcode_byte",
            [byte |-> OpcodeByte(subject.instr),
             other_byte |-> OpcodeByte(subject.other),
             len |-> CodeByteLen(subject.instr),
             operands |-> EncodeOperands(subject.instr),
             decoded |-> DecodeOperands(OpcodeByte(subject.instr))])

\* Instr::decode_operands hands a byte of the range to UsonicInstr, and the
\* instruction is encoded again
CallDecodeOperands ==
    /\ subject.kind = "byte"
    /\ subject.byte \in OpRange
    /\ Call("UsonicInstr::decode_operands",
            [instr |-> DecodeOperands(subject.byte),
             byte |-> OpcodeByte(DecodeOperands(subject.byte))])

\* <UsonicInstr as Instruction>::src_regs: none!()
UsonicSrcRegs(instr) == {}

\* <UsonicInstr as Instruction>::dst_regs
UsonicDstRegs(instr) ==
    CASE instr.op \in {"CkNxIRo", "CkNxIAo", "CkNxORo", "CkNxOAo"} -> {}
      [] instr.op \in {"LdW", "LdIW", "LdIL", "LdIRo", "LdIAo", "LdORo", "LdOAo"} ->
            {"EA", "EB", "EC", "ED"}
      [] instr.op = "LdIT" -> {"EA", "EB"}
      [] instr.op \in {"RstIRo", "RstIAo", "RstORo", "RstOAo"} -> {}

\* <Instr as Instruction>::src_regs, for the control and the USONIC
\* instructions (the base instructions report what the base ISA says)
InstrSrcRegs(instr) ==
    CASE instr.isa = "Ctrl" -> {}
      [] instr.isa = "Usonic" -> UsonicSrcRegs(instr)

\* <Instr as Instruction>::dst_regs, for the same instructions: the USONIC arm
\* calls src_regs of the wrapped instruction
InstrDstRegs(instr) ==
    CASE instr.isa = "Ctrl" -> {}
      [] instr.isa = "Usonic" -> UsonicSrcRegs(instr)

\* the register metadata of Instr::Usonic(u) and of u itself
CallDstRegs ==
    /\ subject.kind = "instr"
    /\ Call("Instr::dst_regs",
            [dst |-> InstrDstRegs(subject.instr),
             src |-> InstrSrcRegs(subject.instr),
             inner_dst |-> UsonicDstRegs(subject.instr),
             inner_src |-> UsonicSrcRegs(subject.instr)])

\* t = AuthToken::from(fe), then AuthToken::from_byte_array(t.to_byte_array())
CallAuthTokenFrom ==
    /\ subject.kind = "token"
    /\ LET token == AuthTokenFrom(subject.fe)
           bytes == ToByteArray(token, subject.debug)
       IN  Call("AuthToken::from",
                [token |-> token, bytes |-> bytes,
                 back |-> IF bytes = ToByteArrayPanic THEN ToByteArrayPanic
                          ELSE FromByteArray(bytes)])

\* t = AuthToken::from_byte_array(bytes), then t.to_byte_array()
CallFromByteArray ==
    /\ subject.kind = "array"
    /\ LET token == FromByteArray(subject.bytes)
       IN  Call("AuthToken::from_byte_array",
                [token |-> token, bytes |-> ToByteArray(token, subject.debug)])

NextLib ==
    \/ CallDstRegs
    \/ CallAuthTokenFrom
    \/ CallFromByteArray
    \/ CallOpcodeByte
    \/ CallDecodeOperands
    \/ CallGet
    \/ CallIntoIter
    \/ CallFromIter
    \/ CallOpid
    \/ CallToOperation
    \/ CallGenesisOpid
    \/ CallContractId
    \/ CallIssueGenesisOpid

SpecLib == InitLib /\ [][NextLib]_vars

\* verify is sequential code: a call that can take a step takes it
SpecLimit == InitLimit /\ [][Next]_vars /\ WF_vars(Next)

----------------------------------------------------------------------------
(* What verify must do, read off its arguments alone *)

\* the elements of a state value, first to last
Elems(sv) ==
    CASE sv.tag = 0 -> <<>>
      [] sv.tag = 1 -> <<sv.first>>
      [] sv.tag = 2 -> <<sv.first, sv.second>>
      [] sv.tag = 3 -> <<sv.first, sv.second, sv.third>>
      [] sv.tag = 4 -> <<sv.first, sv.second, sv.third, sv.fourth>>

\* the registers a lock script starts with: E1 the auth token, E2.. the witness
LockStartRegs(cell, input) ==
    [r \in RegE |->
        IF r = "E1" THEN <<cell.auth>>
        ELSE IF \E k \in 1..Len(Elems(input.witness)) : r = <<"E2", "E3", "E4", "E5">>[k]
        THEN <<Elems(input.witness)[CHOOSE k \in 1..4 : r = <<"E2", "E3", "E4", "E5">>[k]]>>
        ELSE <<>>]

\* a script of the input VM run to its end
RECURSIVE RunGfa(_, _, _, _)
RunGfa(core, code, offset, config) ==
    LET r == AfterStep(ExecGfaInstr(core, code[offset + 1]), code[offset + 1], offset,
                       Len(code), config)
    IN  IF r.halted THEN r.core ELSE RunGfa(r.core, code, r.offset, config)

\* what the destructible input i (from 1) does on its own: its cell is missing,
\* it passes, its lock script fails with an E8, or the resolver panics
InputOutcome(i) ==
    LET input == operation.destructible_in[i]
        cell == memory.destructible[input.addr]
    IN  IF cell = <<>> THEN [kind |-> "missing", e8 |-> <<>>]
        ELSE IF cell[1].lock = <<>> THEN [kind |-> "pass", e8 |-> <<>>]
        ELSE LET st == cell[1].lock[1]
                 lib == repo[st.lib_id]
                 start == [E |-> LockStartRegs(cell[1], input), co |-> Ok, ck |-> Ok,
                          cy |-> 0]
             IN  IF lib = <<>> THEN [kind |-> "fail", e8 |-> <<>>]
                 ELSE IF lib[1] # Libs[st.lib_id] THEN [kind |-> "panic", e8 |-> <<>>]
                 ELSE IF st.offset >= Len(lib[1].code) THEN [kind |-> "fail", e8 |-> <<>>]
                 ELSE LET end == RunGfa(start, lib[1].code, st.offset,
                                        codex.input_config)
                      IN  [kind |-> IF end.ck = Ok THEN "pass" ELSE "fail",
                           e8 |-> end.E["E8"]]

\* the first destructible input (from 1) that does not pass, 0 if all pass
FirstBad ==
    LET bad == {i \in 1..Len(operation.destructible_in) : InputOutcome(i).kind # "pass"}
    IN  IF bad = {} THEN 0 ELSE CHOOSE i \in bad : \A j \in bad : i <= j

\* the first immutable input (from 1) the memory does not have, 0 if it has all
FirstAbsent ==
    LET bad == {j \in 1..Len(operation.immutable_in) :
                    memory.immutable[operation.immutable_in[j]] = <<>>}
    IN  IF bad = {} THEN 0 ELSE CHOOSE j \in bad : \A k \in bad : j <= k

\* the log has the event
Logged(name, n) == \E k \in 1..Len(log) : log[k] = <<name, n>>

\* the log has an event of the kind
LoggedAny(name) == \E k \in 1..Len(log) : log[k][1] = name

\* the indexes the events of a kind were logged with, in the order of the log
LoggedSeq(name) ==
    LET sel == SelectSeq(log, LAMBDA e : e[1] = name)
    IN  [k \in 1..Len(sel) |-> sel[k][2]]

Matched == operation.contract_id = contract_id

Done == pc = "done"

----------------------------------------------------------------------------
(* Contract binding *)

\* C1: when the operation names another contract than the one verify is called
\* for, verify returns WrongContract with expected = the argument and found = the
\* operation's contract id, whatever the inputs, the call id, the memory and the
\* repository are, and it does so before any memory lookup, any library lookup
\* and any VM is created or run.
C1_WrongContractFirst ==
    ~Matched =>
        /\ pc \in {"start", "done"}
        /\ pc = "start" => result.tag = "Pending"
        /\ Done => /\ result.tag = "WrongContract"
                   /\ result.expected = contract_id
                   /\ result.found = operation.contract_id
        /\ log = <<>>
        /\ vm_inputs = NoVm /\ vm_main = NoVm
        /\ destructible_inputs = <<>> /\ immutable_inputs = <<>>

\* a mismatching operation with an input whose cell is locked, immutable inputs
\* and a call the codex does not know has been refused
C1_Witness ==
    /\ Done /\ result.tag = "WrongContract"
    /\ Len(operation.destructible_in) > 0
    /\ Len(operation.immutable_in) > 0
    /\ operation.call_id \notin DOMAIN codex.verifiers

----------------------------------------------------------------------------
(* Success *)

\* C2: whenever verify returns Ok(v), v carries the opid of the operation and the
\* operation itself, unchanged; and Ok is returned only if the contract id
\* matched, every destructible and immutable input was found in the memory,
\* every lock script of a locked input ended with Ok, the call id had an entry
\* point, and the main script ended with Ok.
C2_OkOnlyIfAllPassed ==
    result.tag = "Ok" =>
        /\ result.verified.opid = Opid(operation)
        /\ result.verified.operation = operation
        /\ Matched
        /\ \A i \in 1..Len(operation.destructible_in) :
              /\ memory.destructible[operation.destructible_in[i].addr] # <<>>
              /\ InputOutcome(i).kind = "pass"
        /\ \A j \in 1..Len(operation.immutable_in) :
              memory.immutable[operation.immutable_in[j]] # <<>>
        /\ operation.call_id \in DOMAIN codex.verifiers
        /\ Logged("exec_main", 0)
        /\ vm_main.ck = Ok

\* an operation with two inputs, one of them locked, has been accepted
C2_Witness ==
    /\ result.tag = "Ok"
    /\ Len(operation.destructible_in) = 2
    /\ LoggedAny("exec_lock")

----------------------------------------------------------------------------
(* Phase 1 *)

\* C3: the destructible inputs are handled strictly in the order of their
\* indexes, and the loop stops at the first failing one: if i is the smallest
\* index whose cell is missing or whose lock script fails, the error is the one of
\* input i (NoReadOnceInput of its address, or Lock), no input after i is looked
\* up or has its lock executed, no immutable input is looked up and the main
\* script is not run. (The log of a finished run holds every lookup and every
\* execution of the run.)
C3_StopsAtFirstFailing ==
    LET looked == LoggedSeq("destructible")
        locks == LoggedSeq("exec_lock")
        bad == FirstBad
        kind == InputOutcome(bad).kind
    IN  /\ looked = [k \in 1..Len(looked) |-> k - 1]
        /\ \A k \in 1..Len(locks) :
              /\ k > 1 => locks[k - 1] < locks[k]
              /\ locks[k] < Len(looked)
        /\ (Done /\ Matched /\ bad # 0 /\ kind \in {"missing", "fail"}) =>
              /\ \A k \in 1..Len(log) :
                    /\ log[k][1] \in {"destructible", "exec_lock"} => log[k][2] <= bad - 1
                    /\ log[k][1] \notin {"immutable", "exec_main"}
                    /\ log[k] # <<"Vm::with", 2>>
              /\ vm_main = NoVm
              /\ immutable_inputs = <<>>
              /\ IF kind = "missing"
                 THEN /\ result.tag = "NoReadOnceInput"
                      /\ result.addr = operation.destructible_in[bad].addr
                 ELSE result.tag = "Lock"

\* the first of two inputs failed, with immutable inputs to read after them
C3_Witness ==
    /\ Done /\ Matched
    /\ Len(operation.destructible_in) = 2
    /\ Len(operation.immutable_in) > 0
    /\ FirstBad = 1
    /\ InputOutcome(2).kind = "fail"
    /\ result.tag \in {"NoReadOnceInput", "Lock"}

\* C4: when the memory has no cell for the address of a destructible input (and
\* the inputs before it passed), verify returns NoReadOnceInput with exactly that
\* address, and no lock script is executed for that input; the error is returned
\* for no other reason.
C4_NoReadOnceInput ==
    /\ (Done /\ Matched /\ FirstBad # 0 /\ InputOutcome(FirstBad).kind = "missing") =>
          /\ result.tag = "NoReadOnceInput"
          /\ result.addr = operation.destructible_in[FirstBad].addr
          /\ ~Logged("exec_lock", FirstBad - 1)
          /\ Logged("destructible", FirstBad - 1)
    /\ result.tag = "NoReadOnceInput" =>
          /\ Matched /\ FirstBad # 0
          /\ result.addr = operation.destructible_in[FirstBad].addr
          /\ memory.destructible[result.addr] = <<>>

\* the cell of the second input is missing, after the lock of the first passed
C4_Witness ==
    /\ result.tag = "NoReadOnceInput"
    /\ FirstBad = 2
    /\ Logged("exec_lock", 0)
    /\ operation.destructible_in[1].addr # operation.destructible_in[2].addr

\* C5: verify returns NoImmutableInput(addr) exactly when the contract id
\* matches, every destructible input was found and passed its lock, and addr is
\* the first address of immutable_in the memory has no data for; the immutable
\* inputs are looked up only after all destructible inputs were processed, in the
\* order of the list.
C5_NoImmutableInput ==
    /\ Done =>
          (result.tag = "NoImmutableInput"
              <=> (Matched /\ FirstBad = 0 /\ FirstAbsent # 0))
    /\ result.tag = "NoImmutableInput" =>
          /\ result.addr = operation.immutable_in[FirstAbsent]
          /\ LoggedSeq("immutable") = [k \in 1..FirstAbsent |-> k - 1]
    /\ \A k \in 1..Len(log) :
          log[k][1] = "immutable" =>
             /\ \A i \in 1..Len(operation.destructible_in) :
                   \E m \in 1..(k - 1) : log[m] = <<"destructible", i - 1>>
             /\ \A m \in (k + 1)..Len(log) : log[m][1] \notin {"destructible", "exec_lock"}
             /\ Len(destructible_inputs) = Len(operation.destructible_in)

\* the second immutable input is absent, after a locked destructible input passed
C5_Witness ==
    /\ result.tag = "NoImmutableInput"
    /\ Len(operation.immutable_in) = 2
    /\ FirstAbsent = 2
    /\ LoggedAny("exec_lock")

----------------------------------------------------------------------------
(* Phase 2 *)

\* C6: verify returns NotFound(call_id) exactly when the call id of the operation
\* has no entry in the verifiers of the codex and phase 1 completed without an
\* error; the entry point is looked up only after all inputs were processed, so
\* an input error wins over NotFound, and the main VM is never created or run
\* when NotFound is returned.
C6_NotFound ==
    /\ Done =>
          (result.tag = "NotFound"
              <=> /\ Matched /\ FirstBad = 0 /\ FirstAbsent = 0
                  /\ operation.call_id \notin DOMAIN codex.verifiers)
    /\ result.tag = "NotFound" =>
          /\ result.call_id = operation.call_id
          /\ LoggedSeq("destructible") = [k \in 1..Len(operation.destructible_in) |-> k - 1]
          /\ LoggedSeq("immutable") = [k \in 1..Len(operation.immutable_in) |-> k - 1]
          /\ vm_main = NoVm
          /\ ~LoggedAny("exec_main") /\ ~Logged("Vm::with", 2)
    /\ (Done /\ Matched /\ (FirstBad # 0 \/ FirstAbsent # 0)) =>
          result.tag \in {"NoReadOnceInput", "Lock", "NoImmutableInput", "Panic"}

\* a call without an entry point was refused after a locked input and immutable
\* inputs were read
C6_Witness ==
    /\ result.tag = "NotFound"
    /\ LoggedAny("exec_lock")
    /\ Len(operation.immutable_in) = 2

----------------------------------------------------------------------------
(* Lock scripts *)

\* C7: when the lock script of a destructible input ends with Fail, verify
\* returns Lock(c) where c is the content of E8 of the input VM at the moment the
\* script stopped: Some(code) if the script wrote E8, None if it never did.
C7_LockCode ==
    /\ (pc = "lock_ret" /\ vm_inputs.ck = Fail) =>
          vm_inputs.E["E8"] = InputOutcome(idx + 1).e8
    /\ result.tag = "Lock" => (Done /\ Matched)
    /\ (Done /\ Matched) =>
          LET bad == FirstBad
              out == IF bad = 0 THEN [kind |-> "pass", e8 |-> <<>>] ELSE InputOutcome(bad)
          IN  /\ (bad # 0 /\ out.kind = "fail") =>
                    /\ result.tag = "Lock"
                    /\ result.code = out.e8
                    /\ result.code = vm_inputs.E["E8"]
                    /\ vm_inputs.ck = Fail
              /\ result.tag = "Lock" =>
                    /\ bad = idx + 1
                    /\ out.kind = "fail"

\* the lock of the second input failed at its second check, with the code 2 in
\* E8 and an auth token in E1
C7_Witness ==
    /\ result.tag = "Lock"
    /\ result.code = <<2>>
    /\ vm_inputs.E["E1"] = <<SECRET>>
    /\ idx = 1

\* C8: the lock script of a cell with lock = Some(site) is started at that site
\* with E1 = the auth token of the cell as a field element and E2.. = the
\* elements 0, 1, .. of the witness of the input, in order: a witness of n < 4
\* elements writes only E2..E(1+n), and nothing else is written. A lock script
\* that ends with Ok lets verification proceed to the next input, whether or not
\* it read the witness.
C8_LockRegisters ==
    /\ pc = "lock_call" =>
          /\ memory.destructible[operation.destructible_in[idx + 1].addr] # <<>>
          /\ LET input == operation.destructible_in[idx + 1]
                 cell == memory.destructible[input.addr][1]
             IN  /\ cell.lock = <<site>>
                 /\ vm_inputs.E = LockStartRegs(cell, input)
                 /\ vm_inputs.E["E1"] = <<cell.auth>>
                 /\ \A k \in 1..4 :
                       vm_inputs.E[<<"E2", "E3", "E4", "E5">>[k]] =
                          IF k <= input.witness.tag
                          THEN <<Elems(input.witness)[k]>> ELSE <<>>
                 /\ vm_inputs.co = Ok /\ vm_inputs.ck = Ok
    /\ \A i \in 1..Len(operation.destructible_in) :
          (/\ Matched /\ Logged("exec_lock", i - 1)
           /\ (Done \/ idx # i - 1 \/ pc \notin {"lock_call", "lock_run", "lock_ret"})
           /\ InputOutcome(i).kind = "pass") =>
                /\ result.tag \notin {"Lock", "NoReadOnceInput"} \/ idx > i - 1
                /\ Len(destructible_inputs) >= i
                /\ i < Len(operation.destructible_in) =>
                      (Logged("destructible", i) \/ (pc = "inputs" /\ idx = i))

\* a lock script that stops at once, reading nothing, ended with Ok for the first
\* of two inputs, which has a witness of four elements
C8_Witness ==
    /\ pc = "lock_ret"
    /\ vm_inputs.ck = Ok
    /\ idx = 0
    /\ Len(operation.destructible_in) = 2
    /\ operation.destructible_in[1].witness.tag = 4
    /\ vm_inputs.E["E5"] = <<3>>
    /\ site = lock_stop

\* C9: for a cell with lock = None phase 1 records the data of the cell without
\* executing any script, without a library lookup and without writing any
\* register of the input VM; such an input never produces a Lock error.
C9_UnlockedInput ==
    /\ pc = "inputs" => vm_inputs = GfaCoreWith
    /\ \A i \in 1..Len(operation.destructible_in) :
          LET cell == memory.destructible[operation.destructible_in[i].addr]
          IN  (cell # <<>> /\ cell[1].lock = <<>>) =>
                 /\ ~Logged("exec_lock", i - 1)
                 /\ Logged("destructible", i - 1) =>
                          /\ Len(destructible_inputs) >= i
                          /\ destructible_inputs[i] = cell[1].data
                 /\ (~Done /\ log # <<>> /\ log[Len(log)] = <<"destructible", i - 1>>) =>
                          /\ Len(destructible_inputs) = i
                          /\ vm_inputs = GfaCoreWith
                          /\ result.tag = "Pending"
                 /\ ~(result.tag = "Lock" /\ idx = i - 1)
    /\ \A k \in 1..Len(log) :
          log[k][1] = "get_lib" => (k > 1 /\ log[k - 1][1] \in {"exec_lock", "exec_main"})

\* the second of two inputs is unlocked and has just been recorded, after the
\* lock of the first one was run
C9_Witness ==
    /\ Len(operation.destructible_in) = 2
    /\ log # <<>> /\ log[Len(log)] = <<"destructible", 1>>
    /\ Len(destructible_inputs) = 2
    /\ destructible_inputs[2] = Single(7)
    /\ Logged("exec_lock", 0)

----------------------------------------------------------------------------
(* The main script *)

\* C10: when the main script ends with Fail, verify returns Script(c) if E1 of
\* the main VM holds a value c, zero included, and ScriptUnspecified if E1 is
\* empty; an empty E1 is never reported as Script(0).
C10_ScriptCode ==
    /\ (Done /\ LoggedAny("exec_main") /\ result.tag # "Panic" /\ vm_main.ck = Fail) =>
          IF vm_main.E["E1"] # <<>>
          THEN result.tag = "Script" /\ result.code = vm_main.E["E1"][1]
          ELSE result.tag = "ScriptUnspecified"
    /\ result.tag = "Script" =>
          vm_main.ck = Fail /\ vm_main.E["E1"] = <<result.code>>
    /\ result.tag = "ScriptUnspecified" =>
          vm_main.ck = Fail /\ vm_main.E["E1"] = <<>>

\* the main script failed with zero in E1, after a locked input passed
C10_Witness ==
    /\ result.tag = "Script"
    /\ result.code = 0
    /\ LoggedAny("exec_lock")

----------------------------------------------------------------------------
(* The library resolver *)

\* the repository answered the request for the library id with a library of
\* another id
Mismatching(lib_id) == repo[lib_id] # <<>> /\ repo[lib_id][1] # Libs[lib_id]

\* C11: in both phases, whenever a script execution asks for a library and the
\* repository returns a library whose own id differs from the requested one,
\* verification panics instead of returning Ok or a CallError; the check is made
\* at every library resolution (nothing runs after a mismatching answer), and a
\* mismatching answer never leads to Ok.
C11_ResolverPanic ==
    /\ \A k \in 1..Len(log) :
          (log[k][1] = "get_lib" /\ Mismatching(log[k][2])) =>
             /\ k = Len(log)
             /\ Done /\ result.tag = "Panic"
             /\ log[k - 1][1] \in {"exec_lock", "exec_main"}
    /\ result.tag = "Panic" =>
          /\ log # <<>> /\ log[Len(log)][1] = "get_lib"
          /\ Mismatching(log[Len(log)][2])
    /\ result.tag = "Ok" =>
          \A k \in 1..Len(log) : log[k][1] = "get_lib" => ~Mismatching(log[k][2])
    /\ (Done /\ Matched /\ FirstBad # 0 /\ InputOutcome(FirstBad).kind = "panic") =>
          result.tag = "Panic"

\* the main script asked for a library and got one of another id, after the
\* immutable inputs were read
C11_Witness ==
    /\ result.tag = "Panic"
    /\ LoggedAny("exec_main")
    /\ Len(operation.immutable_in) > 0

C13_AbsentLibIsScript ==
    (Done /\ \E k \in 1..Len(log) : log[k][1] = "get_lib" /\ repo[log[k][2]] = <<>>) =>
        result.tag = "Script"

----------------------------------------------------------------------------
(* Complexity limit *)

\* the limit an executed script ran into, if any, and what verify made of it
LimitOutcome ==
    /\ vm_inputs.cy <= Unwrap(codex.input_config.complexity_lim)
    /\ vm_main.cy <= Unwrap(codex.verification_config.complexity_lim)
    /\ (Done /\ vm_inputs.cy = Unwrap(codex.input_config.complexity_lim)) =>
          /\ vm_inputs.ck = Fail
          /\ result.tag = "Lock" /\ result.code = vm_inputs.E["E8"]
    /\ (Done /\ vm_main.cy = Unwrap(codex.verification_config.complexity_lim)) =>
          /\ vm_main.ck = Fail
          /\ IF vm_main.E["E1"] = <<>>
             THEN result.tag = "ScriptUnspecified"
             ELSE result.tag = "Script" /\ result.code = vm_main.E["E1"][1]

\* C14: with finite complexity limits in both configurations, verify eventually
\* returns, also when a lock script or the main script loops forever: a script
\* that reaches the limit ends with CK = Fail, a lock script's failure becomes
\* Lock(E8), and the main script's failure becomes ScriptUnspecified, or
\* Script(E1) when E1 was set before the halt.
C14_LimitTerminates == <>Done /\ []LimitOutcome

C14_Witness ==
    /\ Done
    /\ vm_main.cy = Unwrap(codex.verification_config.complexity_lim)
    /\ vm_main.cy > 2
    /\ Libs[site.lib_id] = lib_loop_one
    /\ result.tag = "Script" /\ result.code = 1
    /\ Len(destructible_inputs) = 1

----------------------------------------------------------------------------
(* Determinism *)

\* C15: two calls of verify with equal codex, contract id, operation, memory and
\* repository return the same result, whatever calls ran before either of them
\* and however the steps of the two calls interleave.
C15_Deterministic ==
    (Done /\ other.locals.pc = "done" /\ other.args = args) =>
        other.locals.result = result

C15_Witness ==
    /\ Done /\ other.locals.pc = "done" /\ other.args = args
    /\ result.tag = "Lock"
    /\ other.locals.vm_main = NoVm
    /\ vm_main.ck = Fail

----------------------------------------------------------------------------
(* The USONIC instructions *)

\* the state values of a category of the context, in order
CatValues(cat) ==
    CASE cat = IN_RO ->
            [k \in 1..Len(context.destructible_input) |->
                context.destructible_input[k].cell.data]
      [] cat = IN_AO -> context.immutable_input
      [] cat = OUT_RO ->
            [k \in 1..Len(context.destructible_output) |->
                context.destructible_output[k].data]
      [] cat = OUT_AO ->
            [k \in 1..Len(context.immutable_output) |-> context.immutable_output[k].value]

\* EA..ED of a core hold the elements of the value in order, then nothing
HoldsValue(core, sv) ==
    \A no \in 1..4 :
       core.E[DataRegs[no]] = IF no <= Len(Elems(sv)) THEN <<Elems(sv)[no]>> ELSE <<>>

\* EA..ED of the two cores are equal
SameData(a, b) == \A no \in 1..4 : a.E[DataRegs[no]] = b.E[DataRegs[no]]

\* C16: ld* cat executed with UI[cat] = k sets CO = ok and UI[cat] = k + 1 when
\* the list of the category has an element at index k, and sets CO = fail and
\* leaves UI[cat] = k when it has none.
C16_LoadAdvances ==
    [][\A cat \in IoCats :
          log' = <<Usonic(LdOp(cat))>> =>
             LET k == vm_main.ui[IoCatIndex(cat)]
             IN  IF k < Len(CatValues(cat))
                 THEN vm_main'.co = Ok /\ vm_main'.ui[IoCatIndex(cat)] = k + 1
                 ELSE vm_main'.co = Fail /\ vm_main'.ui[IoCatIndex(cat)] = k]_vars

C16_Witness ==
    /\ pc = "isa"
    /\ log = <<Usonic("LdIAo")>>
    /\ Len(context.immutable_input) = 2 /\ vm_main.ui[IoCatIndex(IN_AO)] = 2
    /\ context.witness # SvNone
    /\ vm_main.co = Fail /\ HoldsValue(vm_main, SvNone)

\* C17: cknx* cat sets CO = ok exactly when the list of the category has an
\* element at index UI[cat], changes no UI register and none of EA..ED, and
\* executed again right after itself gives the same CO.
C17_CheckNext ==
    [][\A cat \in IoCats :
          log' = <<Usonic(CkOp(cat))>> =>
             /\ vm_main'.co = IF vm_main.ui[IoCatIndex(cat)] < Len(CatValues(cat))
                              THEN Ok ELSE Fail
             /\ vm_main'.ui = vm_main.ui
             /\ SameData(vm_main', vm_main)
             /\ log = <<Usonic(CkOp(cat))>> => vm_main'.co = vm_main.co]_vars

C17_Witness ==
    /\ pc = "isa"
    /\ log = <<Usonic("CkNxORo")>>
    /\ vm_main.co = Ok
    /\ Len(context.destructible_output) = 2 /\ vm_main.ui[IoCatIndex(OUT_RO)] = 1
    /\ vm_main.E["ED"] = <<54>>

\* C18: rst* cat sets UI[cat] to 0 and changes nothing else of the core, CO, CK
\* and EA..ED included; the ld* cat that follows it loads element 0 of the
\* category.
C18_Reset ==
    [][\A cat \in IoCats :
          /\ log' = <<Usonic(RstOp(cat))>> =>
                vm_main' = [vm_main EXCEPT !.ui[IoCatIndex(cat)] = 0]
          /\ (log = <<Usonic(RstOp(cat))>> /\ log' = <<Usonic(LdOp(cat))>>
                  /\ Len(CatValues(cat)) > 0) =>
                /\ HoldsValue(vm_main', CatValues(cat)[1])
                /\ vm_main'.ui[IoCatIndex(cat)] = 1]_vars

C18_Witness ==
    /\ pc = "isa"
    /\ log = <<Usonic("RstIRo")>>
    /\ vm_main.ui = <<0, 1, 0, 0>>
    /\ vm_main.co = Fail /\ vm_main.ck = Fail
    /\ HoldsValue(vm_main, Double(21, 22))

\* C19: after a successful ld* of a state value with n elements, EA..ED hold the
\* elements 0..n-1 in order and the other 4-n registers are empty, whatever the
\* registers held before; for Single(V), EA = V and EB, EC, ED are empty.
C19_LoadRegisters ==
    [][\A cat \in IoCats :
          (log' = <<Usonic(LdOp(cat))>>
              /\ vm_main.ui[IoCatIndex(cat)] < Len(CatValues(cat))) =>
             LET sv == CatValues(cat)[vm_main.ui[IoCatIndex(cat)] + 1]
             IN  /\ HoldsValue(vm_main', sv)
                 /\ sv.tag = 1 =>
                       /\ vm_main'.E["EA"] = <<sv.first>>
                       /\ vm_main'.E["EB"] = <<>>
                       /\ vm_main'.E["EC"] = <<>>
                       /\ vm_main'.E["ED"] = <<>>]_vars

C19_Witness ==
    /\ pc = "isa"
    /\ log = <<Usonic("LdORo")>>
    /\ vm_main.ui[IoCatIndex(OUT_RO)] = 2
    /\ vm_main.E["EA"] = <<55>> /\ vm_main.E["EB"] = <<>>
    /\ vm_main.E["EC"] = <<>> /\ vm_main.E["ED"] = <<>>

\* C20: ldw puts the witness of the context into EA..ED, the registers the
\* witness has no element for being emptied, and changes neither CO, CK nor
\* any UI register, also when the witness is None.
C20_LoadWitness ==
    [][log' = <<Usonic("LdW")>> =>
          /\ HoldsValue(vm_main', context.witness)
          /\ vm_main'.co = vm_main.co
          /\ vm_main'.ck = vm_main.ck
          /\ vm_main'.ui = vm_main.ui]_vars

C20_Witness ==
    /\ pc = "isa"
    /\ log = <<Usonic("LdW")>>
    /\ context.witness = SvNone
    /\ Len(context.destructible_input) = 1 /\ vm_main.ui = <<1, 0, 0, 0>>
    /\ Len(context.immutable_input) = 0
    /\ HoldsValue(vm_main, SvNone)
    /\ vm_main.co = Fail /\ vm_main.ck = Ok

\* C21: ldi witness and ldi lock read the destructible input at index
\* UI[IN_RO], the one the next ldi destructible would load: when that input
\* exists (and, for ldi lock, its cell has a lock) EA..ED hold its witness /
\* its lock auxiliary value and CO = ok, otherwise CO = fail; no UI register
\* changes in either case.
C21_LoadInputAux ==
    [][LET k == vm_main.ui[IoCatIndex(IN_RO)]
           present == k < Len(context.destructible_input)
           entry == context.destructible_input[k + 1]
       IN  /\ log' = <<Usonic("LdIW")>> =>
                /\ vm_main'.ui = vm_main.ui
                /\ IF present
                   THEN vm_main'.co = Ok /\ HoldsValue(vm_main', entry.input.witness)
                   ELSE vm_main'.co = Fail
           /\ log' = <<Usonic("LdIL")>> =>
                /\ vm_main'.ui = vm_main.ui
                /\ IF present /\ entry.cell.lock # None
                   THEN vm_main'.co = Ok /\ HoldsValue(vm_main', entry.cell.lock[1].aux)
                   ELSE vm_main'.co = Fail]_vars

C21_Witness ==
    /\ pc = "isa"
    /\ log = <<Usonic("LdIL")>>
    /\ Len(context.destructible_input) = 2 /\ vm_main.ui[IoCatIndex(IN_RO)] = 1
    /\ vm_main.co = Ok /\ HoldsValue(vm_main, Single(31))

Regs(sv) == [no \in 1..4 |-> IF no <= Len(Elems(sv)) THEN <<Elems(sv)[no]>> ELSE <<>>]

\* C23: from UI[cat] = 0 and with no rst* cat in between, the j-th successful
\* ld* cat loads element j-1 of the list of the category, so the loads so far
\* are a prefix of the list, in order; and ld* cat and cknx* cat report CO =
\* fail exactly when as many loads have succeeded as the list has elements.
C23_IteratesInOrder ==
    [][\A cat \in IoCats :
          /\ Len(visited'[cat]) <= Len(CatValues(cat))
          /\ \A j \in 1..Len(visited'[cat]) : visited'[cat][j] = Regs(CatValues(cat)[j])
          /\ (log' = <<Usonic(LdOp(cat))>> \/ log' = <<Usonic(CkOp(cat))>>) =>
                (vm_main'.co = Fail <=> Len(visited[cat]) = Len(CatValues(cat)))]_vars

C23_Witness ==
    /\ pc = "isa"
    /\ log = <<Usonic("LdORo")>>
    /\ vm_main.co = Fail
    /\ visited[OUT_RO] = <<Regs(Quadripple(51, 52, 53, 54)), Regs(Single(55))>>
    /\ Len(visited[OUT_AO]) = 1

\* C24: a newly constructed UsonicCore has its four UI registers at 0, and
\* reset() of the core, after whatever instructions ran, puts the four UI
\* registers back to 0 and empties the field registers.
C24_CoreReset ==
    /\ [](log = <<>> => vm_main.ui = <<0, 0, 0, 0>>)
    /\ [][log' = <<CoreReset>> =>
            /\ vm_main'.ui = <<0, 0, 0, 0>>
            /\ \A r \in RegE : vm_main'.E[r] = <<>>]_vars

C24_Witness ==
    /\ pc = "isa"
    /\ log = <<CoreReset>>
    /\ vm_main.ck = Fail
    /\ vm_main.ui = <<0, 0, 0, 0>>
    /\ vm_main.E["EA"] = <<>>

----------------------------------------------------------------------------
(* Identifiers *)

\* C25: genesis.to_operation(cid) has no destructible and no immutable input,
\* contract_id = cid, and the version, call_id, nonce, destructible_out and
\* immutable_out of the genesis; genesis.opid(cid) is the opid of that
\* operation, and the opids under two different contract ids differ.
C25_GenesisToOperation ==
    LET g == subject.genesis
    IN  /\ log = <<"Genesis::to_operation">> =>
             /\ result.operation.destructible_in = <<>>
             /\ result.operation.immutable_in = <<>>
             /\ result.operation.contract_id = subject.contract_id
             /\ result.operation.version = g.version
             /\ result.operation.call_id = g.call_id
             /\ result.operation.nonce = g.nonce
             /\ result.operation.destructible_out = g.destructible_out
             /\ result.operation.immutable_out = g.immutable_out
        /\ log = <<"Genesis::opid">> =>
             /\ result.opid = <<g.version, subject.contract_id, g.call_id, g.nonce, <<>>, <<>>,
                                g.destructible_out, g.immutable_out>>
             /\ subject.contract_id # subject.other_contract_id =>
                   result.opid # result.other_opid

C25_Witness ==
    /\ log = <<"Genesis::opid">>
    /\ subject.genesis.nonce = 1
    /\ subject.genesis.destructible_out # <<>>
    /\ subject.contract_id = Bytes32(0) /\ subject.other_contract_id = Bytes32(7)
    /\ result.opid # result.other_opid

\* the commitment a genesis gives under a contract id, written out
OpidUnder(g, cid) ==
    <<g.version, cid, g.call_id, g.nonce, <<>>, <<>>, g.destructible_out, g.immutable_out>>

\* the commitment an issue gives, written out
IdOfIssue(i) ==
    <<"ContractId", i.version, i.meta, <<"CodexId", i.codex>>,
      OpidUnder(i.genesis, Bytes32(255))>>

\* C26: issue.contract_id() commits to the version, the meta, the codex id and
\* the genesis opid under the placeholder contract id 0xFF..FF, in this order,
\* so it does not depend on itself; issue.genesis_opid() is the genesis opid
\* under issue.contract_id(), which differs from the opid under the placeholder.
C26_IssueIds ==
    /\ log = <<"Issue::contract_id">> => result.contract_id = IdOfIssue(subject.issue)
    /\ log = <<"Issue::genesis_opid">> =>
          /\ result.genesis_opid = OpidUnder(subject.issue.genesis, IdOfIssue(subject.issue))
          /\ result.genesis_opid # OpidUnder(subject.issue.genesis, Bytes32(255))

C26_Witness ==
    /\ log = <<"Issue::genesis_opid">>
    /\ subject.issue.meta.testnet
    /\ subject.issue.genesis.codex_id # CodexId(subject.issue.codex)
    /\ result.genesis_opid[2][1] = "ContractId"
    /\ result.genesis_opid[2][5][2] = Bytes32(255)

\* C27: operation.opid() commits to version, contract_id, call_id, nonce and the
\* Merkle roots of destructible_in, immutable_in, destructible_out and
\* immutable_out, in this order; two operations have the same opid exactly
\* when the eight components are equal, the order of each list included.
C27_OpidCommitment ==
    log = <<"Operation::opid">> =>
       LET a == subject.operation
           b == subject.other
       IN  /\ result.opid[1] = a.version
           /\ result.opid[2] = a.contract_id
           /\ result.opid[3] = a.call_id
           /\ result.opid[4] = a.nonce
           /\ result.opid[5] = a.destructible_in
           /\ result.opid[6] = a.immutable_in
           /\ result.opid[7] = a.destructible_out
           /\ result.opid[8] = a.immutable_out
           /\ Len(result.opid) = 8
           /\ result.opid = result.other_opid <=>
                 /\ a.version = b.version
                 /\ a.contract_id = b.contract_id
                 /\ a.call_id = b.call_id
                 /\ a.nonce = b.nonce
                 /\ a.destructible_in = b.destructible_in
                 /\ a.immutable_in = b.immutable_in
                 /\ a.destructible_out = b.destructible_out
                 /\ a.immutable_out = b.immutable_out

C27_Witness ==
    /\ log = <<"Operation::opid">>
    /\ subject.operation.destructible_in[1] = subject.other.destructible_in[2]
    /\ subject.operation.destructible_in[2] = subject.other.destructible_in[1]
    /\ [subject.operation EXCEPT !.destructible_in = <<>>]
         = [subject.other EXCEPT !.destructible_in = <<>>]
    /\ result.opid # result.other_opid

\* C28: a VerifiedOperation that verify returned stores the opid of the
\* operation it wraps, and two of them are equal, and compare as equal, exactly
\* when the opids of their operations are equal.
C28_VerifiedByOpid ==
    /\ result.tag = "Ok" => result.verified.opid = Opid(result.verified.operation)
    /\ (result.tag = "Ok" /\ other.locals.result.tag = "Ok") =>
          LET v1 == result.verified
              v2 == other.locals.result.verified
              same == Opid(v1.operation) = Opid(v2.operation)
          IN  /\ VerifiedEq(v1, v2) <=> same
              /\ VerifiedCmp(v1, v2) = "Equal" <=> same

C28_Witness ==
    /\ result.tag = "Ok" /\ other.locals.result.tag = "Ok"
    /\ operation.destructible_in # <<>>
    /\ other.args[3].destructible_in = <<>>
    /\ ~VerifiedEq(result.verified, other.locals.result.verified)

----------------------------------------------------------------------------
(* State values *)

\* the fields of a state value, in order
Fields == <<"first", "second", "third", "fourth">>

\* C29: a state value with n elements (its variant: None 0 .. Quadripple 4)
\* gives get(i) = Some(element i) for i < n and None for every other i in
\* 0..255; iterating it yields its n elements in order; and from_iter of that
\* iteration gives the value back.
C29_StateValueRoundTrip ==
    LET v == subject.value
    IN  /\ log = <<"StateValue::get">> =>
             result.item = IF result.pos < v.tag THEN <<v[Fields[result.pos + 1]]>> ELSE <<>>
        /\ log = <<"StateValue::into_iter">> =>
             /\ Len(result.items) = v.tag
             /\ \A k \in 1..v.tag : result.items[k] = v[Fields[k]]
        /\ log = <<"StateValue::from_iter">> => result.value = v

C29_Witness ==
    /\ log = <<"StateValue::from_iter">>
    /\ subject.value = Quadripple(0, 1, 1, 0)
    /\ result.value.tag = 4 /\ result.value.fourth = 0

----------------------------------------------------------------------------
(* Bytecode *)

\* C30: every USONIC instruction encodes to one byte of 128..143 with code
\* length 1 and no operand bytes, two instructions to the same byte only when
\* they are the same instruction; decoding the byte gives the instruction
\* back, and every byte of 128..143 decodes to an instruction that encodes to
\* that byte.
C30_OpcodeRoundTrip ==
    /\ log = <<"UsonicInstr::opcode_byte">> =>
          /\ result.byte \in 128..143
          /\ result.len = 1
          /\ result.operands = <<>>
          /\ result.decoded = subject.instr
          /\ result.byte = result.other_byte <=> subject.instr = subject.other
    /\ log = <<"UsonicInstr::decode_operands">> =>
          /\ subject.byte \in 128..143
          /\ result.instr \in {Usonic(op) : op \in UsonicOps}
          /\ result.byte = subject.byte

C30_Witness ==
    /\ log = <<"UsonicInstr::decode_operands">>
    /\ subject.byte = 143
    /\ result.instr = Usonic("RstOAo")

----------------------------------------------------------------------------
(* Authorization tokens *)

\* C31: every AuthToken, made from 30 bytes or from a field element, has the
\* upper two bytes of its field element equal to 0, so that
\* from_byte_array(t.to_byte_array()) = t for every token t and
\* from_byte_array(b).to_byte_array() = b for every array b of 30 bytes.
C31_AuthTokenUpperBytes ==
    /\ log = <<"AuthToken::from">> =>
          /\ result.token[31] = 0 /\ result.token[32] = 0
          /\ result.back = result.token
    /\ log = <<"AuthToken::from_byte_array">> =>
          /\ result.token[31] = 0 /\ result.token[32] = 0
          /\ result.bytes = subject.bytes

----------------------------------------------------------------------------
(* The two VMs of a call *)

\* C32: when the main script starts, every E register of the main VM is empty,
\* CO and CK are ok and the four UI registers are 0, whatever the lock scripts
\* of phase 1 left in the input VM; the code of a Script(..) error is a value
\* the main script itself put into E1.
C32_MainVmFresh ==
    /\ pc = "main_call" =>
          /\ \A r \in RegE : vm_main.E[r] = <<>>
          /\ vm_main.co = Ok /\ vm_main.ck = Ok
          /\ vm_main.ui = <<0, 0, 0, 0>>
    /\ result.tag = "Script" =>
          LET code == Libs[codex.verifiers[operation.call_id].lib_id].code
          IN  \E k \in DOMAIN code :
                 /\ code[k].op = "put"
                 /\ code[k].dst = "E1" /\ code[k].val = result.code

\* a lock script ran with the secret in E1 and passed, and the main script then
\* failed without a code
C32_Witness ==
    /\ result.tag = "ScriptUnspecified"
    /\ LoggedAny("exec_lock")
    /\ Len(destructible_inputs) = 1
    /\ memory.destructible[operation.destructible_in[1].addr][1].auth = SECRET
    /\ vm_main.E["E1"] = <<>>

----------------------------------------------------------------------------
(* The context of the main script *)

\* the main script has been given its context
MainStarted == pc \in {"main_call", "main_run", "main_ret"} \/ LoggedAny("exec_main")

----------------------------------------------------------------------------
(* The input VM between two lock scripts *)

\* the codes a lock script entered at a site can write to E8
OwnCodes(at) ==
    LET code == Libs[at.lib_id].code
    IN  {code[k].val : k \in {j \in DOMAIN code : /\ j > at.offset
                                                  /\ code[j].op = "put"
                                                  /\ code[j].dst = "E8"}}

\* C34: no register content carries over from one lock script to the next: at
\* the start of the lock script of every locked input after the first, the
\* registers among E2..E5 beyond the input's witness, E8 and the registers
\* EA..ED are empty; and Lock(Some(c)) reports a code that the lock script of
\* the failing input can write.
C34_NoCarryOver ==
    /\ (pc = "lock_call" /\ idx >= 1) =>
          LET input == operation.destructible_in[idx + 1]
          IN  /\ \A k \in 1..4 :
                    k > input.witness.tag =>
                       vm_inputs.E[<<"E2", "E3", "E4", "E5">>[k]] = <<>>
              /\ vm_inputs.E["E8"] = <<>>
              /\ \A r \in {"EA", "EB", "EC", "ED"} : vm_inputs.E[r] = <<>>
    /\ (result.tag = "Lock" /\ result.code # <<>>) =>
          LET cell == memory.destructible[operation.destructible_in[idx + 1].addr][1]
          IN  result.code[1] \in OwnCodes(cell.lock[1])

\* the second lock script starts, at another address, after the lock script of
\* the first input succeeded with 48 in EA and 3 in E8
C34_Witness ==
    /\ pc = "lock_call" /\ idx = 1
    /\ memory.destructible[operation.destructible_in[1].addr][1].lock = <<lock_secret>>
    /\ memory.destructible[operation.destructible_in[1].addr][1].auth = SECRET
    /\ memory.destructible[operation.destructible_in[2].addr][1].lock = <<lock_rest>>
    /\ operation.destructible_in[2].witness.tag = 2
    /\ vm_inputs.E["E8"] = <<>>
    /\ vm_inputs.E["E4"] = <<>>

----------------------------------------------------------------------------
(* Read-once cells *)

\* C35: a destructible cell is consumed at most once by a verified operation:
\* verify does not return Ok for an operation whose destructible_in lists the
\* same address at two different positions.
C35_ConsumedOnce ==
    result.tag = "Ok" =>
       \A i, j \in 1..Len(operation.destructible_in) :
          operation.destructible_in[i].addr = operation.destructible_in[j].addr => i = j

----------------------------------------------------------------------------
(* The range of the iterators *)

\* C36: in every state reachable from a new or reset core by cknx*, ld*, ldw,
\* ldi witness / lock / auth and rst* instructions, every UI register is between
\* 0 and the length of the list of its category, so that the u16 increment of a
\* load never wraps.
C36_IteratorInRange ==
    pc = "isa" =>
       \A cat \in IoCats :
          /\ vm_main.ui[IoCatIndex(cat)] \in 0..Len(CatValues(cat))
          /\ vm_main.ui[IoCatIndex(cat)] < 65536

\* two iterators stand at the end of their lists of two elements, and the load
\* that ran last found nothing more
C36_Witness ==
    /\ pc = "isa"
    /\ log = <<Usonic("LdIAo")>>
    /\ vm_main.co = Fail
    /\ vm_main.ui = <<0, 2, 0, 2>>
    /\ Len(context.immutable_input) = 2
    /\ Len(context.immutable_output) = 2

----------------------------------------------------------------------------
(* Independence of the iterators *)

\* the categories in the order of their UI registers
CatOrder == <<IN_RO, IN_AO, OUT_RO, OUT_AO>>

\* C37: the four iterators are independent: a ld* or rst* of a category,
\* whether it succeeds or not, leaves the UI registers of the three other
\* categories as they were.
C37_IteratorsIndependent ==
    [][\A i \in 1..4 :
          (log' = <<Usonic(LdOp(CatOrder[i]))>> \/ log' = <<Usonic(RstOp(CatOrder[i]))>>) =>
             \A j \in (1..4) \ {i} : vm_main'.ui[j] = vm_main.ui[j]]_vars

\* a destructible output was loaded while the iterator of the destructible
\* inputs stood at the end of its list
C37_Witness ==
    /\ pc = "isa"
    /\ log = <<Usonic("LdORo")>>
    /\ vm_main.co = Ok
    /\ vm_main.ui = <<2, 0, 1, 0>>

----------------------------------------------------------------------------
(* Loads past the end of a list *)

\* the data registers of a core are all empty
DataEmpty(core) == \A no \in 1..4 : core.E[DataRegs[no]] = <<>>

\* C38: a failed load empties the destination registers: when a ld* of a
\* category, ldi witness or ldi lock finds no element at the current index, it
\* sets CO = fail and leaves EA, EB, EC and ED all empty, whatever an earlier
\* load had put there.
C38_FailedLoadEmpties ==
    [][LET k == vm_main.ui[1]
           noInput == k >= Len(context.destructible_input)
       IN  /\ \A i \in 1..4 :
                 (/\ log' = <<Usonic(LdOp(CatOrder[i]))>>
                  /\ vm_main.ui[i] >= Len(CatValues(CatOrder[i]))) =>
                    vm_main'.co = Fail /\ DataEmpty(vm_main')
           /\ (log' = <<Usonic("LdIW")>> /\ noInput) =>
                 vm_main'.co = Fail /\ DataEmpty(vm_main')
           /\ (/\ log' = <<Usonic("LdIL")>>
               /\ (noInput \/ context.destructible_input[k + 1].cell.lock = <<>>)) =>
                 vm_main'.co = Fail /\ DataEmpty(vm_main')]_vars

\* the third ldi immutable found nothing after two loads, the second of which
\* had filled EA, EB and EC, and the registers are empty
C38_Witness ==
    /\ pc = "isa"
    /\ log = <<Usonic("LdIAo")>>
    /\ vm_main.co = Fail
    /\ visited[IN_AO] = <<Regs(Single(41)), Regs(Triple(42, 43, 44))>>
    /\ DataEmpty(vm_main)

----------------------------------------------------------------------------
(* What a lock cannot see *)

\* the verdict of the loop over the destructible inputs, from the position and
\* the result of a call: its error, that it passed, or that it is not over
Phase1Verdict(at, res) ==
    IF res.tag \in {"NoReadOnceInput", "Lock"} THEN res
    ELSE IF at \in {"start", "inputs", "lock_call", "lock_run", "lock_ret"}
         THEN [tag |-> "Running"]
         ELSE [tag |-> "Passed"]

\* C39: the verdict of Phase 1 does not depend on the parts of the operation a
\* lock cannot see: two operations with the same contract_id and the same
\* destructible_in, verified against the same memory and libraries, both pass
\* the destructible inputs or both fail with the same NoReadOnceInput address
\* or the same Lock code, whatever their call_id, nonce, immutable_in,
\* destructible_out and immutable_out are.
C39_VerdictUnseen ==
    LET mine == Phase1Verdict(pc, result)
        theirs == Phase1Verdict(other.locals.pc, other.locals.result)
        op == other.args[3]
    IN  (/\ op.contract_id = operation.contract_id
         /\ op.destructible_in = operation.destructible_in
         /\ other.args[2] = contract_id
         /\ other.args[4] = memory /\ other.args[5] = repo
         /\ mine.tag # "Running" /\ theirs.tag # "Running") =>
           mine = theirs

\* both calls failed with the code 2 of the lock, on operations that differ in
\* call id, nonce, immutable inputs and outputs
C39_Witness ==
    /\ result = Lock(<<2>>) /\ other.locals.result = Lock(<<2>>)
    /\ other.args[3].call_id # operation.call_id
    /\ other.args[3].nonce # operation.nonce
    /\ other.args[3].immutable_in # operation.immutable_in
    /\ other.args[3].destructible_out # operation.destructible_out
    /\ other.args[3].immutable_out # operation.immutable_out

----------------------------------------------------------------------------
(* Register metadata *)

\* C40: the combined instruction type reports the same register metadata as
\* the instruction it wraps: for every USONIC instruction u, dst_regs of
\* Instr::Usonic(u) is dst_regs of u (EA..ED for the ld* instructions and ldw,
\* EA and EB for ldi auth, none for cknx* and rst*), and src_regs of
\* Instr::Usonic(u) is src_regs of u.
C40_RegisterMetadata ==
    log = <<"Instr::dst_regs">> =>
       /\ result.dst = result.inner_dst
       /\ result.src = result.inner_src
       /\ result.dst =
             (IF subject.instr.op = "LdIT" THEN {"EA", "EB"}
              ELSE IF subject.instr.op \in
                        {"LdW", "LdIW", "LdIL", "LdIRo", "LdIAo", "LdORo", "LdOAo"}
              THEN {"EA", "EB", "EC", "ED"} ELSE {})

====
